---- MODULE Spec2Model ----
(***************************************************************************)
(* A model of dcgmi's diagnostic front end (src/dcgmi/Diag.cpp): the       *)
(* signal bridge, the supervisor ExecuteDiagOnServer with its poll loop,   *)
(* RunDiagOnce, the iteration loop RunStartDiag, the classifier            *)
(* GetFailureResult, the GPU-set derivation, the bucketing of the text     *)
(* report, the per-GPU results of the structured document, and Sanitize.   *)
(*                                                                         *)
(* Specifications:                                                         *)
(*   Spec          the program: RunStartDiag down to the poll loop, the    *)
(*                 asynchronous dispatch and signal delivery interleaved   *)
(*   SpecClassify  GetFailureResult over a bounded family of responses     *)
(*   SpecRender    PopulateGpuList, HelperDisplayGpuResults and            *)
(*                 HelperJsonAddResult over a bounded family of responses  *)
(*   SpecSanitize  Sanitize over all strings up to MaxLen                  *)
(*   SpecWrap      DisplayVerboseInfo over all message lengths up to       *)
(*                 MaxInfoLen                                              *)
(*   SpecDoc       the whole report of one run, HelperJsonBuildOutput and  *)
(*                 the text sections, over a bounded family of responses   *)
(*   SpecStart     the StartDiag command: its constructor and its two      *)
(*                 handlers with the hostname and executable path          *)
(*   SpecDetails   HelperDisplayDetails as HelperDisplayGpuResults calls   *)
(*                 it, over responses whose cells carry messages           *)
(*   SpecLive      Spec with weak fairness on the calling thread           *)
(*   SpecCategory  the report over responses with every per-GPU test of    *)
(*                 dcgmPerGpuTestIndices_t                                 *)
(*   SpecDeployment  the report over responses whose level-one results     *)
(*                 reach past the CUDA runtime library check               *)
(*   SpecFilter    the explicit GPU filter, from the accepted string to    *)
(*                 the slots the renderers read                            *)
(***************************************************************************)
EXTENDS Integers, Sequences, FiniteSets, TLC

VARIABLES
    \* ---- the program (Spec) ----
    m_iterations,            \* Diag::m_iterations
    m_jsonOutput,            \* Diag::m_jsonOutput
    m_drd,                   \* Diag::m_drd (gpuList, totalIterations, currentIteration)
    g_signalExit,            \* static std::atomic<bool> g_signalExit
    diag_stopDiagOnSignal,   \* static bool diag_stopDiagOnSignal ("armed")
    pc,                      \* position of the main thread
    rde,                     \* the RemoteDiagExecutor of the current ExecuteDiagOnServer call
    diagResult,              \* RunDiagOnce's response record
    gpuVec,                  \* RunDiagOnce's gpuVec
    result,                  \* the local `result` of ExecuteDiagOnServer / RunDiagOnce
    i,                       \* loop index of RunStartDiag
    ret,                     \* `ret` of RunStartDiag's loop body
    overallRet,              \* value RunStartDiag returns
    hist,                    \* history (observation only): counters of calls and signals
    diag_installed_sig_handlers, \* static bool diag_installed_sig_handlers
    sigactions,              \* the process's disposition of each of the four signals
    diag_oldHandler,         \* diag_oldHupHandler .. diag_oldTermHandler
    m_jsonTmpValue,          \* Diag::m_jsonTmpValue, the fragment of the last rendered run
    output,                  \* RunStartDiag's local Json::Value output
    diag_hostname,           \* static std::string diag_hostname
    diag_pathToExecutable,   \* static std::string diag_pathToExecutable
    startDiag,               \* the StartDiag command object and its position
    \* ---- inputs and outputs of the pure operations ----
    resp,                    \* a response handed to the classifier / renderer
    op,                      \* the operations applied so far
    retval,                  \* GetFailureResult's return value
    textReport,              \* the text report: per test the buckets, or its sections
    jsonDoc,                 \* per test testEntry[NVVS_RESULTS], or the document
    toOutput,                \* Sanitize's argument
    sanitized,               \* Sanitize's return value, applied once and twice
    name,                    \* DisplayVerboseInfo's argument name
    info,                    \* DisplayVerboseInfo's argument info
    cmdView                  \* the rows DisplayVerboseInfo displayed, in order

progVars == <<m_iterations, m_jsonOutput, m_drd, g_signalExit, diag_stopDiagOnSignal,
              pc, rde, diagResult, gpuVec, result, i, ret, overallRet>>
sigVars  == <<diag_installed_sig_handlers, sigactions, diag_oldHandler>>
iterVars == <<m_jsonTmpValue, output>>
startVars == <<diag_hostname, diag_pathToExecutable, startDiag>>
ctlVars  == <<m_iterations, m_jsonOutput, m_drd, g_signalExit, diag_stopDiagOnSignal,
              pc, rde, diagResult, gpuVec, result, i, ret, overallRet, hist,
              diag_installed_sig_handlers, sigactions, diag_oldHandler,
              m_jsonTmpValue, output, diag_hostname, diag_pathToExecutable, startDiag>>
wrapVars == <<name, info, cmdView>>
pureVars == <<resp, op, retval, textReport, jsonDoc, toOutput, sanitized,
              name, info, cmdView>>
vars     == <<m_iterations, m_jsonOutput, m_drd, g_signalExit, diag_stopDiagOnSignal,
              pc, rde, diagResult, gpuVec, result, i, ret, overallRet, hist,
              diag_installed_sig_handlers, sigactions, diag_oldHandler,
              m_jsonTmpValue, output, diag_hostname, diag_pathToExecutable, startDiag,
              resp, op, retval, textReport, jsonDoc, toOutput, sanitized,
              name, info, cmdView>>

(***************************************************************************)
(* Bounds of the model.  The arrays of the response record have fixed      *)
(* capacities in the program; the model scales the capacities down.        *)
(***************************************************************************)
DCGM_MAX_NUM_DEVICES == 2        \* per-GPU slots; also the sentinel gpuId
DCGM_PER_GPU_TEST_COUNT_V8 == 2  \* per-GPU tests in a slot
DCGM_MAX_ERRORS == 2             \* error entries in a result cell
MaxLevelOne == 2                 \* capacity of levelOneResults
MaxIterations == 3               \* largest m_iterations tried
MaxSignals == 2                  \* signals delivered in one behaviour
MaxInfoLen == 100                \* longest message handed to DisplayVerboseInfo
MaxLen == 7                      \* longest string handed to Sanitize

Devices == 0 .. (DCGM_MAX_NUM_DEVICES - 1)
Tests   == 0 .. (DCGM_PER_GPU_TEST_COUNT_V8 - 1)
ErrIdx  == 0 .. (DCGM_MAX_ERRORS - 1)
L1Idx   == 0 .. (MaxLevelOne - 1)

\* dcgmDiagResult_t
DCGM_DIAG_RESULT_PASS    == "PASS"
DCGM_DIAG_RESULT_SKIP    == "SKIP"
DCGM_DIAG_RESULT_WARN    == "WARN"
DCGM_DIAG_RESULT_FAIL    == "FAIL"
DCGM_DIAG_RESULT_NOT_RUN == "NOT_RUN"
Statuses == {DCGM_DIAG_RESULT_PASS, DCGM_DIAG_RESULT_SKIP, DCGM_DIAG_RESULT_WARN,
             DCGM_DIAG_RESULT_FAIL, DCGM_DIAG_RESULT_NOT_RUN}

\* dcgmReturn_t, the codes the front end distinguishes
DCGM_ST_OK                 == "DCGM_ST_OK"
DCGM_ST_GROUP_INCOMPATIBLE == "DCGM_ST_GROUP_INCOMPATIBLE"
DCGM_ST_NOT_SUPPORTED      == "DCGM_ST_NOT_SUPPORTED"
DCGM_ST_PAUSED             == "DCGM_ST_PAUSED"
DCGM_ST_TIMEOUT            == "DCGM_ST_TIMEOUT"
DCGM_ST_GENERIC_ERROR      == "DCGM_ST_GENERIC_ERROR"
DCGM_ST_NVVS_ERROR         == "DCGM_ST_NVVS_ERROR"
DCGM_ST_NVVS_ISOLATE_ERROR == "DCGM_ST_NVVS_ISOLATE_ERROR"
DCGM_ST_NVVS_KILLED        == "DCGM_ST_NVVS_KILLED"

\* What dcgmActionValidate_v2 may return.  The engine reports its own
\* classification codes too (DCGM_ST_NVVS_ERROR and the like).
RemoteReturns == {DCGM_ST_OK, DCGM_ST_GROUP_INCOMPATIBLE, DCGM_ST_NOT_SUPPORTED,
                  DCGM_ST_PAUSED, DCGM_ST_TIMEOUT, DCGM_ST_GENERIC_ERROR,
                  DCGM_ST_NVVS_ERROR}

\* Error codes: one representative per priority tier; FR_OK is the zeroed entry.
ErrCodes == {"FR_OK", "FR_MONITOR", "FR_ISOLATE"}
DCGM_ERROR_ISOLATE == "ISOLATE"

\* The external code -> priority lookup.
dcgmErrorGetPriorityByCode(code) ==
    CASE code = "FR_ISOLATE" -> DCGM_ERROR_ISOLATE
      [] code = "FR_MONITOR" -> "MONITOR"
      [] OTHER               -> "UNKNOWN"

(***************************************************************************)
(* The response record (dcgmDiagResponse_t), reduced to the fields the     *)
(* front end branches on.                                                  *)
(***************************************************************************)
NoErrors == [j \in ErrIdx |-> "FR_OK"]
Cell(status, error) == [status |-> status, error |-> error]
ZeroCell == Cell(DCGM_DIAG_RESULT_PASS, NoErrors)   \* memset 0: status 0 is PASS

\* Diag::InitializeDiagResponse
InitializeDiagResponse ==
    [gpuCount          |-> 0,
     levelOneTestCount |-> 0,
     levelOneResults   |-> [l \in L1Idx |-> ZeroCell],
     perGpuResponses   |-> [g \in Devices |->
                               [gpuId   |-> DCGM_MAX_NUM_DEVICES,
                                results |-> [t \in Tests |-> ZeroCell]]],
     systemError       |-> ""]

\* RemoteDiagExecutor::RemoteDiagExecutor: m_diagResult is zeroed, no sentinel
ZeroResponse ==
    [InitializeDiagResponse EXCEPT
        !.perGpuResponses = [g \in Devices |->
                               [gpuId |-> 0, results |-> [t \in Tests |-> ZeroCell]]]]

(***************************************************************************)
(* The bounded family of responses an engine may return.  A response is a  *)
(* base record (every level-one cell PASS, every per-GPU cell NOT_RUN) in  *)
(* which up to two cells, anywhere, are replaced.                          *)
(***************************************************************************)
\* error arrays: at most one isolate-tier entry at any position, the other
\* entries all empty or all of the monitor tier
ErrArrays ==
    {[j \in ErrIdx |-> IF j = p THEN "FR_ISOLATE" ELSE f] :
        p \in 0 .. DCGM_MAX_ERRORS, f \in {"FR_OK", "FR_MONITOR"}}

ErrCells ==
    {Cell(s, e) : s \in {DCGM_DIAG_RESULT_FAIL, DCGM_DIAG_RESULT_WARN}, e \in ErrArrays}
    \cup {Cell(s, NoErrors) : s \in Statuses}

StatusCells == {Cell(s, NoErrors) : s \in Statuses}

CellAddrs == {<<"l1", l, 0>> : l \in L1Idx} \cup {<<"gpu", g, t>> : g \in Devices, t \in Tests}

BaseResponse(populated, gpuCount, levelOneTestCount) ==
    [gpuCount          |-> gpuCount,
     levelOneTestCount |-> levelOneTestCount,
     levelOneResults   |-> [l \in L1Idx |-> Cell(DCGM_DIAG_RESULT_PASS, NoErrors)],
     perGpuResponses   |-> [g \in Devices |->
                               [gpuId   |-> IF g \in populated THEN g ELSE DCGM_MAX_NUM_DEVICES,
                                results |-> [t \in Tests |->
                                               Cell(DCGM_DIAG_RESULT_NOT_RUN, NoErrors)]]],
     systemError       |-> ""]

SetCell(r, a, c) ==
    IF a[1] = "l1"
    THEN [r EXCEPT !.levelOneResults[a[2]] = c]
    ELSE [r EXCEPT !.perGpuResponses[a[2]].results[a[3]] = c]

(***************************************************************************)
(* ResultClassifier: Diag::GetFailureResult, the scan as the code runs it. *)
(* A scan step yields [returned, ret]: returned is the early `return`.     *)
(***************************************************************************)
RECURSIVE ScanErrors(_, _, _)
\* the inner loop over error[0 .. DCGM_MAX_ERRORS-1] of a failing cell
ScanErrors(error, j, r) ==
    IF j >= DCGM_MAX_ERRORS
    THEN [returned |-> FALSE, ret |-> r]
    ELSE IF dcgmErrorGetPriorityByCode(error[j]) = DCGM_ERROR_ISOLATE
         THEN [returned |-> TRUE, ret |-> DCGM_ST_NVVS_ISOLATE_ERROR]
         ELSE ScanErrors(error, j + 1, DCGM_ST_NVVS_ERROR)

\* a mutant of ScanCell: the scan of a failing cell looks at error[0] only
ScanCell_FirstErrorOnly(cell, r) ==
    IF cell.status = DCGM_DIAG_RESULT_FAIL
    THEN IF dcgmErrorGetPriorityByCode(cell.error[0]) = DCGM_ERROR_ISOLATE
         THEN [returned |-> TRUE, ret |-> DCGM_ST_NVVS_ISOLATE_ERROR]
         ELSE [returned |-> FALSE, ret |-> DCGM_ST_NVVS_ERROR]
    ELSE [returned |-> FALSE, ret |-> r]

\* `if (status == DCGM_DIAG_RESULT_FAIL) { for (j ...) ... }`
ScanCell(cell, r) ==
    IF cell.status = DCGM_DIAG_RESULT_FAIL
    THEN ScanErrors(cell.error, 0, r)
    ELSE [returned |-> FALSE, ret |-> r]

RECURSIVE ScanLevelOne(_, _, _)
\* the loop over levelOneResults[0 .. levelOneTestCount-1]
ScanLevelOne(d, l, r) ==
    IF l >= d.levelOneTestCount
    THEN [returned |-> FALSE, ret |-> r]
    ELSE LET s == ScanCell(d.levelOneResults[l], r)
         IN  IF s.returned THEN s ELSE ScanLevelOne(d, l + 1, s.ret)

RECURSIVE ScanPerGpu(_, _, _)
\* the nested loops over perGpuResponses[i].results[j], n = i * tests + j
ScanPerGpu(d, n, r) ==
    IF n >= DCGM_MAX_NUM_DEVICES * DCGM_PER_GPU_TEST_COUNT_V8
    THEN [returned |-> FALSE, ret |-> r]
    ELSE LET g == n \div DCGM_PER_GPU_TEST_COUNT_V8
             t == n % DCGM_PER_GPU_TEST_COUNT_V8
             s == ScanCell(d.perGpuResponses[g].results[t], r)
         IN  IF s.returned THEN s ELSE ScanPerGpu(d, n + 1, s.ret)

\* a mutant of GetFailureResult: warnings count as failures
GetFailureResult_WarnFails(d) ==
    IF \/ \E l \in L1Idx : l < d.levelOneTestCount
                           /\ d.levelOneResults[l].status = DCGM_DIAG_RESULT_WARN
       \/ \E g \in Devices, t \in Tests :
              d.perGpuResponses[g].results[t].status = DCGM_DIAG_RESULT_WARN
    THEN DCGM_ST_NVVS_ERROR
    ELSE LET a == ScanLevelOne(d, 0, DCGM_ST_OK)
         IN  IF a.returned THEN a.ret ELSE ScanPerGpu(d, 0, a.ret).ret

GetFailureResult(d) ==
    LET a == ScanLevelOne(d, 0, DCGM_ST_OK)
    IN  IF a.returned THEN a.ret ELSE ScanPerGpu(d, 0, a.ret).ret

(***************************************************************************)
(* Diag::PopulateGpuList                                                   *)
(***************************************************************************)
someTestRan(slot) ==
    \E t \in Tests : slot.results[t].status # DCGM_DIAG_RESULT_NOT_RUN

RECURSIVE PopulateLoop(_, _, _)
PopulateLoop(d, g, vec) ==
    IF ~(g < DCGM_MAX_NUM_DEVICES /\ Len(vec) < d.gpuCount)
    THEN vec
    ELSE IF d.perGpuResponses[g].gpuId # DCGM_MAX_NUM_DEVICES
            /\ someTestRan(d.perGpuResponses[g])
         THEN PopulateLoop(d, g + 1, Append(vec, g))
         ELSE PopulateLoop(d, g + 1, vec)

\* a mutant of PopulateGpuList: the loop is not capped by gpuCount
PopulateGpuList_NoCap(d) ==
    PopulateLoop([d EXCEPT !.gpuCount = DCGM_MAX_NUM_DEVICES], 0, <<>>)

\* gpuVec is empty when RunDiagOnce makes the call
PopulateGpuList(d) == PopulateLoop(d, 0, <<>>)

\* RunDiagOnce, lines 417-428: the explicit filter wins, else the scan
DeriveGpuVec(gpuList, d) ==
    IF Len(gpuList) > 0 THEN gpuList ELSE PopulateGpuList(d)

(***************************************************************************)
(* ReportRenderer, text: the bucketing loop of HelperDisplayGpuResults and *)
(* the summary row it picks.                                               *)
(***************************************************************************)
\* an index past the per-GPU tests: context create is stored at index 0
DCGM_CONTEXT_CREATE_INDEX == DCGM_PER_GPU_TEST_COUNT_V8 + 1

EmptyBuckets == [passed |-> <<>>, failed |-> <<>>, skipped |-> <<>>, warned |-> <<>>]

RECURSIVE BucketLoop(_, _, _, _, _)
BucketLoop(diagResults, gpuIndices, testIndex, k, b) ==
    IF k > Len(gpuIndices)
    THEN b
    ELSE LET gpuIndex == gpuIndices[k]
             st       == diagResults[gpuIndex].results[testIndex].status
             id       == diagResults[gpuIndex].gpuId
             nb == CASE st = DCGM_DIAG_RESULT_PASS -> [b EXCEPT !.passed  = Append(@, id)]
                     [] st = DCGM_DIAG_RESULT_SKIP -> [b EXCEPT !.skipped = Append(@, id)]
                     [] st = DCGM_DIAG_RESULT_WARN -> [b EXCEPT !.warned  = Append(@, id)]
                     [] st = DCGM_DIAG_RESULT_FAIL -> [b EXCEPT !.failed  = Append(@, id)]
                     [] OTHER                      -> b
         IN  BucketLoop(diagResults, gpuIndices, testIndex, k + 1, nb)

\* a mutant of HelperDisplayGpuResults: a warned GPU is also listed as passed
HelperDisplayGpuResults_WarnTwice(testIndex, diagResults, gpuIndices) ==
    LET ti == IF testIndex = DCGM_CONTEXT_CREATE_INDEX THEN 0 ELSE testIndex
        b  == BucketLoop(diagResults, gpuIndices, ti, 1, EmptyBuckets)
    IN  [passed  |-> b.passed \o b.warned, failed |-> b.failed,
         skipped |-> b.skipped, warned |-> b.warned,
         summary |-> "mixed"]

\* the four lists and which summary row is shown
HelperDisplayGpuResults(testIndex, diagResults, gpuIndices) ==
    LET ti      == IF testIndex = DCGM_CONTEXT_CREATE_INDEX THEN 0 ELSE testIndex
        b       == BucketLoop(diagResults, gpuIndices, ti, 1, EmptyBuckets)
        numGpus == Len(gpuIndices)
    IN  [passed  |-> b.passed, failed |-> b.failed,
         skipped |-> b.skipped, warned |-> b.warned,
         summary |-> IF Len(b.passed) = numGpus THEN "Pass - All"
                     ELSE IF Len(b.skipped) = numGpus THEN "Skip - All"
                     ELSE IF Len(b.failed) = numGpus THEN "Fail - All"
                     ELSE IF Len(b.warned) = numGpus THEN "Warn - All"
                     ELSE "mixed"]

(***************************************************************************)
(* ReportRenderer, structured: HelperDisplayDiagResult, HelperJsonAddResult*)
(* and the per-plugin loop of HelperJsonBuildOutput.                       *)
(***************************************************************************)
HelperDisplayDiagResult(val) ==
    IF val = DCGM_DIAG_RESULT_PASS THEN "Pass"
    ELSE IF val = DCGM_DIAG_RESULT_SKIP THEN "Skip"
    ELSE "Fail"

JsonNull == [null |-> TRUE]

\* a Json::Value that holds a string
JsonString(str) == [string |-> str]

\* Json::Value array assignment arr[idx] = v: the array grows to idx + 1
\* elements and the elements it had to create are null
JsonArraySet(arr, idx, v) ==
    [k \in 1 .. (IF Len(arr) > idx + 1 THEN Len(arr) ELSE idx + 1) |->
        IF k = idx + 1 THEN v
        ELSE IF k <= Len(arr) THEN arr[k] ELSE JsonNull]

\* returns [ran, results]: the bool the code returns and testEntry[NVVS_RESULTS].
\* gpu_id is the decimal text of gpuIndex ("%u"); it is kept as the number.
HelperJsonAddResult(gpuResult, results, gpuIndex, testIndex, k) ==
    IF gpuResult.results[testIndex].status = DCGM_DIAG_RESULT_NOT_RUN
    THEN [ran |-> FALSE, results |-> results]
    ELSE [ran |-> TRUE,
          results |-> JsonArraySet(results, k,
                        [gpu_id |-> gpuIndex,
                         status |-> HelperDisplayDiagResult(
                                        gpuResult.results[testIndex].status)])]

RECURSIVE JsonResultsLoop(_, _, _, _, _)
\* lines 1204-1209; k is the 0-based position in gpuIndices
JsonResultsLoop(d, gpuIndices, pluginIndex, k, acc) ==
    IF k >= Len(gpuIndices)
    THEN acc
    ELSE LET gpuIndex == gpuIndices[k + 1]
             a == HelperJsonAddResult(d.perGpuResponses[gpuIndex], acc.results,
                                      gpuIndex, pluginIndex, k)
         IN  JsonResultsLoop(d, gpuIndices, pluginIndex, k + 1,
                             [pluginRan |-> acc.pluginRan \/ a.ran, results |-> a.results])

JsonTestEntry(d, gpuIndices, pluginIndex) ==
    JsonResultsLoop(d, gpuIndices, pluginIndex, 0, [pluginRan |-> FALSE, results |-> <<>>])

(***************************************************************************)
(* The program.  Each action is one step of the main thread between two    *)
(* points where a signal handler or the dispatch thread can be observed.   *)
(***************************************************************************)
\* the explicit GPU filters tried (m_drd.gpuList, parsed)
GpuFilters == {<<>>, <<0>>}

\* the cells a dispatched run's response differs in: the first and the last
\* level-one result, the first and the last per-GPU cell
RunCellAddrs ==
    {<<"l1", 0, 0>>, <<"l1", MaxLevelOne - 1, 0>>, <<"gpu", 0, 0>>,
     <<"gpu", DCGM_MAX_NUM_DEVICES - 1, DCGM_PER_GPU_TEST_COUNT_V8 - 1>>}

\* what a completed dispatch hands back with DCGM_ST_OK
RunResponses ==
    {[SetCell(BaseResponse(pop, Cardinality(pop), MaxLevelOne), a, c)
         EXCEPT !.systemError = m] :
        pop \in {{}, Devices}, a \in RunCellAddrs, m \in {"", "nvvs said"},
        c \in {Cell(DCGM_DIAG_RESULT_PASS, NoErrors),
               Cell(DCGM_DIAG_RESULT_WARN, [j \in ErrIdx |-> "FR_ISOLATE"]),
               Cell(DCGM_DIAG_RESULT_FAIL, NoErrors),
               Cell(DCGM_DIAG_RESULT_FAIL, [j \in ErrIdx |-> "FR_MONITOR"]),
               Cell(DCGM_DIAG_RESULT_FAIL,
                    [j \in ErrIdx |-> IF j = DCGM_MAX_ERRORS - 1
                                      THEN "FR_ISOLATE" ELSE "FR_MONITOR"])}}

\* what a failed dispatch hands back: nothing but, possibly, a message
FailResponses == {[ZeroResponse EXCEPT !.systemError = m] : m \in {"", "nvvs said"}}

\* no RemoteDiagExecutor exists; m_drd is the request an executor copies when it
\* is constructed (line 193)
NoRde == [state |-> "none", m_result |-> DCGM_ST_OK, m_diagResult |-> ZeroResponse,
          m_drd |-> [gpuList |-> <<>>, totalIterations |-> 0, currentIteration |-> 0]]

InitHist ==
    [signals       |-> 0,      \* signals delivered so far
     unarmed       |-> 0,      \* of these, delivered while not armed
     sigArmed      |-> FALSE,  \* one was delivered while this call was armed
     sigBeforeExit |-> FALSE,  \* ... and before the poll that left the loop
     aborts        |-> 0,      \* AbortDiag::Execute calls of this call
     stops         |-> 0,      \* dcgmStopDiagnostic calls of RunDiagOnce
     rets          |-> <<>>,   \* the outcome of every RunDiagOnce so far
     transport     |-> "none", \* what ExecuteDiagOnServer returned last
     rendered      |-> FALSE,  \* the last RunDiagOnce rendered its report
     showsFail     |-> FALSE,  \* ... and the report shows the status "Fail"
     abortRet      |-> "none", \* what AbortDiag::Execute returned in this call
     reads         |-> 0,      \* GetResult / GetResponse reads of this call
     dispatches    |-> 0,      \* rde->Start() calls of this RunDiagOnce
     classified    |-> FALSE,  \* this RunDiagOnce called GetFailureResult
     log           |-> <<>>,   \* stop requests and messages of this RunDiagOnce,
                               \* then RunStartDiag's summary, in order
     banners       |-> <<>>,   \* the iteration banners printed so far
     inflight      |-> 0,      \* dispatches started and neither completed nor stopped
     flagAtArm     |-> FALSE]  \* g_signalExit when this ExecuteDiagOnServer call began

\* the four signals InstallSigHandlers takes over
Signals == {"SIGHUP", "SIGINT", "SIGQUIT", "SIGTERM"}

SIG_DFL == "SIG_DFL"
NULL == "NULL"

\* the state of the signal bridge before InstallSigHandlers was ever called:
\* default dispositions, nothing saved (lines 127-131)
InitSigHandlers ==
    /\ diag_installed_sig_handlers = FALSE
    /\ sigactions = [s \in Signals |-> SIG_DFL]
    /\ diag_oldHandler = [s \in Signals |-> NULL]

\* SET_NEW_HANDLER_AND_SAVE_OLD_HANDLER, lines 151-159: sigaction() installs the
\* new handler and reports the one it replaces, which is saved
SET_NEW_HANDLER_AND_SAVE_OLD_HANDLER(st, SIG, handler) ==
    [st EXCEPT !.sigactions[SIG] = handler,
               !.diag_oldHandler[SIG] = st.sigactions[SIG]]

\* the four registrations of lines 177-181
RegisterAll(st) ==
    LET a == SET_NEW_HANDLER_AND_SAVE_OLD_HANDLER(
                 [st EXCEPT !.diag_installed_sig_handlers = TRUE],
                 "SIGHUP", "handle_signal_during_diag")
        b == SET_NEW_HANDLER_AND_SAVE_OLD_HANDLER(a, "SIGINT", "handle_signal_during_diag")
        c == SET_NEW_HANDLER_AND_SAVE_OLD_HANDLER(b, "SIGQUIT", "handle_signal_during_diag")
    IN  SET_NEW_HANDLER_AND_SAVE_OLD_HANDLER(c, "SIGTERM", "handle_signal_during_diag")

\* a mutant of InstallSigHandlers: no guard, every call registers again
InstallSigHandlers_EveryCall(st) == RegisterAll(st)

\* InstallSigHandlers, lines 170-182
InstallSigHandlers(st) ==
    IF st.diag_installed_sig_handlers THEN st ELSE RegisterAll(st)

\* RunStartDiag's output and Diag::m_jsonTmpValue are default-constructed
\* Json::Value objects: null
NoOutput == [iterations |-> <<>>, result |-> JsonNull, warning |-> JsonNull]

InitIter ==
    /\ m_jsonTmpValue = JsonNull
    /\ output = NoOutput

\* lines 125-126: the statics are empty; no StartDiag object is modelled
InitStartIdle ==
    /\ diag_hostname = ""
    /\ diag_pathToExecutable = ""
    /\ startDiag = [at |-> "idle"]

\* DisplayVerboseInfo not called
InitWrapIdle ==
    /\ name = ""
    /\ info = <<>>
    /\ cmdView = <<>>

InitPure ==
    /\ resp = ZeroResponse
    /\ op = {}
    /\ retval = "none"
    /\ textReport = <<>>
    /\ jsonDoc = <<>>
    /\ toOutput = <<>>
    /\ sanitized = <<>>
    /\ InitWrapIdle

Init ==
    /\ m_iterations \in 0 .. MaxIterations
    /\ m_jsonOutput \in BOOLEAN
    /\ m_drd \in {[gpuList |-> f, totalIterations |-> 0, currentIteration |-> 0] :
                     f \in GpuFilters}
    /\ g_signalExit = FALSE
    /\ diag_stopDiagOnSignal = FALSE
    /\ pc = "start"
    /\ rde = NoRde
    /\ diagResult = ZeroResponse
    /\ gpuVec = <<>>
    /\ result = DCGM_ST_OK
    /\ i = 0
    /\ ret = DCGM_ST_OK
    /\ overallRet = DCGM_ST_OK
    /\ hist = InitHist
    /\ InitSigHandlers
    /\ InitIter
    /\ InitStartIdle
    /\ InitPure

\* a mutant of handle_signal_during_diag: the flag is set armed or not
handle_signal_during_diag_Unguarded(armed, flag) == TRUE

\* handle_signal_during_diag: the new value of g_signalExit
handle_signal_during_diag(armed, flag) == IF armed THEN TRUE ELSE flag

\* delivery of one of the four signals while its disposition is still the
\* default one: the process is terminated
Signal_Default ==
    /\ pc # "terminated"
    /\ \E sig \in Signals : sigactions[sig] = SIG_DFL
    /\ pc' = "terminated"
    /\ UNCHANGED <<m_iterations, m_jsonOutput, m_drd, g_signalExit, diag_stopDiagOnSignal,
                   rde, diagResult, gpuVec, result, i, ret, overallRet, hist>>
    /\ UNCHANGED sigVars
    /\ UNCHANGED iterVars
    /\ UNCHANGED startVars
    /\ UNCHANGED pureVars

\* delivery of SIGHUP, SIGINT, SIGQUIT or SIGTERM, at any point after
\* InstallSigHandlers: handle_signal_during_diag runs
\* a mutant of Signal: the handler itself sends the abort request
Signal_Aborts ==
    /\ hist.signals < MaxSignals
    /\ \E sig \in Signals : sigactions[sig] = "handle_signal_during_diag"
    /\ g_signalExit' = handle_signal_during_diag(diag_stopDiagOnSignal, g_signalExit)
    /\ hist' = [hist EXCEPT
                  !.signals = @ + 1,
                  !.aborts = IF diag_stopDiagOnSignal THEN @ + 1 ELSE @,
                  !.unarmed = IF diag_stopDiagOnSignal THEN @ ELSE @ + 1,
                  !.sigArmed = @ \/ diag_stopDiagOnSignal,
                  !.sigBeforeExit = @ \/ (diag_stopDiagOnSignal
                                          /\ pc \in {"exec_start", "poll", "sleep"})]
    /\ UNCHANGED <<m_iterations, m_jsonOutput, m_drd, diag_stopDiagOnSignal, pc, rde,
                   diagResult, gpuVec, result, i, ret, overallRet>>
    /\ UNCHANGED sigVars
    /\ UNCHANGED iterVars
    /\ UNCHANGED startVars
    /\ UNCHANGED pureVars

\* delivery of a signal to handle_signal_during_diag, lines 162-168
Signal ==
    /\ hist.signals < MaxSignals
    /\ \E sig \in Signals : sigactions[sig] = "handle_signal_during_diag"
    /\ g_signalExit' = handle_signal_during_diag(diag_stopDiagOnSignal, g_signalExit)
    /\ hist' = [hist EXCEPT
                  !.signals = @ + 1,
                  !.unarmed = IF diag_stopDiagOnSignal THEN @ ELSE @ + 1,
                  !.sigArmed = @ \/ diag_stopDiagOnSignal,
                  !.sigBeforeExit = @ \/ (diag_stopDiagOnSignal
                                          /\ pc \in {"exec_start", "poll", "sleep"})]
    /\ UNCHANGED <<m_iterations, m_jsonOutput, m_drd, diag_stopDiagOnSignal, pc, rde,
                   diagResult, gpuVec, result, i, ret, overallRet>>
    /\ UNCHANGED sigVars
    /\ UNCHANGED iterVars
    /\ UNCHANGED startVars
    /\ UNCHANGED pureVars

\* a mutant of RunStartDiag_Enter: one iteration goes through the loop
RunStartDiag_Enter_LoopForOne ==
    /\ pc = "start"
    /\ IF m_iterations < 1
       THEN /\ pc' = "once_init"
            /\ UNCHANGED <<m_drd, overallRet>>
       ELSE /\ overallRet' = DCGM_ST_OK
            /\ m_drd' = [m_drd EXCEPT !.totalIterations = m_iterations]
            /\ pc' = "loop_head"
    /\ i' = 0
    /\ UNCHANGED <<m_iterations, m_jsonOutput, g_signalExit, diag_stopDiagOnSignal, rde,
                   diagResult, gpuVec, result, ret, hist>>
    /\ UNCHANGED sigVars
    /\ UNCHANGED iterVars
    /\ UNCHANGED startVars
    /\ UNCHANGED pureVars

\* RunStartDiag, lines 503-510
RunStartDiag_Enter ==
    /\ pc = "start"
    /\ IF m_iterations <= 1
       THEN /\ pc' = "once_init"
            /\ UNCHANGED <<m_drd, overallRet>>
       ELSE /\ overallRet' = DCGM_ST_OK
            /\ m_drd' = [m_drd EXCEPT !.totalIterations = m_iterations]
            /\ pc' = "loop_head"
    /\ i' = 0
    /\ UNCHANGED <<m_iterations, m_jsonOutput, g_signalExit, diag_stopDiagOnSignal, rde,
                   diagResult, gpuVec, result, ret, hist>>
    /\ UNCHANGED sigVars
    /\ UNCHANGED iterVars
    /\ UNCHANGED startVars
    /\ UNCHANGED pureVars

\* line 516: "Running iteration <i + 1> of <m_iterations>..."
Banner(iteration, iterations) == <<"Running iteration", iteration + 1, "of", iterations>>

\* a mutant of RunStartDiag_LoopHead: the request carries the 1-based number
RunStartDiag_LoopHead_OneBased ==
    /\ pc = "loop_head"
    /\ IF i < m_iterations
       THEN /\ hist' = [hist EXCEPT !.banners =
                          IF m_jsonOutput = FALSE
                          THEN Append(@, Banner(i, m_iterations)) ELSE @]
            /\ m_drd' = [m_drd EXCEPT !.currentIteration = i + 1]
            /\ pc' = "once_init"
       ELSE /\ pc' = "finish"
            /\ UNCHANGED <<m_drd, hist>>
    /\ UNCHANGED <<m_iterations, m_jsonOutput, g_signalExit, diag_stopDiagOnSignal, rde,
                   diagResult, gpuVec, result, i, ret, overallRet>>
    /\ UNCHANGED sigVars
    /\ UNCHANGED iterVars
    /\ UNCHANGED startVars
    /\ UNCHANGED pureVars

\* RunStartDiag, lines 512-519: the loop test, the banner, currentIteration
RunStartDiag_LoopHead ==
    /\ pc = "loop_head"
    /\ IF i < m_iterations
       THEN /\ hist' = [hist EXCEPT !.banners =
                          IF m_jsonOutput = FALSE
                          THEN Append(@, Banner(i, m_iterations)) ELSE @]
            /\ m_drd' = [m_drd EXCEPT !.currentIteration = i]
            /\ pc' = "once_init"
       ELSE /\ pc' = "finish"
            /\ UNCHANGED <<m_drd, hist>>
    /\ UNCHANGED <<m_iterations, m_jsonOutput, g_signalExit, diag_stopDiagOnSignal, rde,
                   diagResult, gpuVec, result, i, ret, overallRet>>
    /\ UNCHANGED sigVars
    /\ UNCHANGED iterVars
    /\ UNCHANGED startVars
    /\ UNCHANGED pureVars

\* RunDiagOnce, lines 352-362
RunDiagOnce_Enter ==
    /\ pc = "once_init"
    /\ diagResult' = InitializeDiagResponse
    /\ gpuVec' = <<>>
    /\ result' = DCGM_ST_OK
    /\ LET st == InstallSigHandlers(
                     [diag_installed_sig_handlers |-> diag_installed_sig_handlers,
                      sigactions |-> sigactions,
                      diag_oldHandler |-> diag_oldHandler])
       IN  /\ diag_installed_sig_handlers' = st.diag_installed_sig_handlers
           /\ sigactions' = st.sigactions
           /\ diag_oldHandler' = st.diag_oldHandler
    /\ hist' = [hist EXCEPT !.rendered = FALSE, !.showsFail = FALSE,
                            !.transport = "none", !.stops = 0,
                            !.dispatches = 0, !.classified = FALSE, !.log = <<>>]
    /\ pc' = "exec_arm"
    /\ UNCHANGED <<m_iterations, m_jsonOutput, m_drd, g_signalExit, diag_stopDiagOnSignal,
                   rde, i, ret, overallRet>>
    /\ UNCHANGED iterVars
    /\ UNCHANGED startVars
    /\ UNCHANGED pureVars

\* a mutant of ExecuteDiagOnServer_Arm: every call starts with the flag cleared
ExecuteDiagOnServer_Arm_ResetsFlag ==
    /\ pc = "exec_arm"
    /\ rde' = [state |-> "created", m_result |-> DCGM_ST_OK, m_diagResult |-> ZeroResponse,
               m_drd |-> m_drd]
    /\ result' = DCGM_ST_OK
    /\ diag_stopDiagOnSignal' = TRUE
    /\ g_signalExit' = FALSE
    /\ hist' = [hist EXCEPT !.sigArmed = FALSE, !.sigBeforeExit = FALSE, !.aborts = 0,
                            !.abortRet = "none", !.reads = 0,
                            !.flagAtArm = g_signalExit]
    /\ pc' = "exec_start"
    /\ UNCHANGED <<m_iterations, m_jsonOutput, m_drd, diagResult, gpuVec,
                   i, ret, overallRet>>
    /\ UNCHANGED sigVars
    /\ UNCHANGED iterVars
    /\ UNCHANGED startVars
    /\ UNCHANGED pureVars

\* ExecuteDiagOnServer, lines 465-467; the executor copies the request (line 193)
ExecuteDiagOnServer_Arm ==
    /\ pc = "exec_arm"
    /\ rde' = [state |-> "created", m_result |-> DCGM_ST_OK, m_diagResult |-> ZeroResponse,
               m_drd |-> m_drd]
    /\ result' = DCGM_ST_OK
    /\ diag_stopDiagOnSignal' = TRUE
    /\ hist' = [hist EXCEPT !.sigArmed = FALSE, !.sigBeforeExit = FALSE, !.aborts = 0,
                            !.abortRet = "none", !.reads = 0,
                            !.flagAtArm = g_signalExit]
    /\ pc' = "exec_start"
    /\ UNCHANGED <<m_iterations, m_jsonOutput, m_drd, g_signalExit, diagResult, gpuVec,
                   i, ret, overallRet>>
    /\ UNCHANGED sigVars
    /\ UNCHANGED iterVars
    /\ UNCHANGED startVars
    /\ UNCHANGED pureVars

\* ExecuteDiagOnServer, line 470: rde->Start()
ExecuteDiagOnServer_Start ==
    /\ pc = "exec_start"
    /\ rde' = [rde EXCEPT !.state = "running"]
    /\ hist' = [hist EXCEPT !.dispatches = @ + 1, !.inflight = @ + 1]
    /\ pc' = "poll"
    /\ UNCHANGED <<m_iterations, m_jsonOutput, m_drd, g_signalExit, diag_stopDiagOnSignal,
                   diagResult, gpuVec, result, i, ret, overallRet>>
    /\ UNCHANGED sigVars
    /\ UNCHANGED iterVars
    /\ UNCHANGED startVars
    /\ UNCHANGED pureVars

\* RemoteDiagExecutor::run on the dispatch thread: dcgmActionValidate_v2 returns
RemoteDiagExecutor_run ==
    /\ rde.state = "running"
    /\ \E rc \in RemoteReturns :
         \E r \in (IF rc = DCGM_ST_OK THEN RunResponses ELSE FailResponses) :
            rde' = [rde EXCEPT !.state = "exited", !.m_result = rc, !.m_diagResult = r]
    /\ hist' = [hist EXCEPT !.inflight = @ - 1]
    /\ UNCHANGED <<m_iterations, m_jsonOutput, m_drd, g_signalExit, diag_stopDiagOnSignal,
                   pc, diagResult, gpuVec, result, i, ret, overallRet>>
    /\ UNCHANGED sigVars
    /\ UNCHANGED iterVars
    /\ UNCHANGED startVars
    /\ UNCHANGED pureVars

\* a mutant of PollBranch: completion is looked at before the flag
PollBranch_ExitFirst(flag, exited) ==
    IF exited THEN "exited" ELSE IF flag THEN "signal" ELSE "sleep"

\* a mutant of PollBranch: the loop is left without waiting for the dispatch
PollBranch_NoWait(flag, exited) ==
    IF flag THEN "signal" ELSE "exited"

\* a mutant of PollBranch: the loop is left on a signal only
PollBranch_SignalOnly(flag, exited) ==
    IF flag THEN "signal" ELSE "sleep"

\* the if / else-if of the poll loop, lines 474-487
PollBranch(flag, exited) ==
    IF flag THEN "signal" ELSE IF exited THEN "exited" ELSE "sleep"

\* ExecuteDiagOnServer, one pass of the loop body up to its first call
ExecuteDiagOnServer_Poll ==
    /\ pc = "poll"
    /\ LET b == PollBranch(g_signalExit, rde.state = "exited")
       IN  CASE b = "signal" ->
                  /\ pc' = "abort"
                  /\ UNCHANGED <<result, diagResult, hist>>
             [] b = "exited" ->
                  /\ result' = rde.m_result
                  /\ diagResult' = rde.m_diagResult
                  /\ hist' = [hist EXCEPT !.reads = @ + 1]
                  /\ pc' = "exec_disarm"
             [] OTHER ->
                  /\ pc' = "sleep"
                  /\ UNCHANGED <<result, diagResult, hist>>
    /\ UNCHANGED <<m_iterations, m_jsonOutput, m_drd, g_signalExit, diag_stopDiagOnSignal,
                   rde, gpuVec, i, ret, overallRet>>
    /\ UNCHANGED sigVars
    /\ UNCHANGED iterVars
    /\ UNCHANGED startVars
    /\ UNCHANGED pureVars

\* line 490: sleep_for(100ms)
ExecuteDiagOnServer_Sleep ==
    /\ pc = "sleep"
    /\ pc' = "poll"
    /\ UNCHANGED <<m_iterations, m_jsonOutput, m_drd, g_signalExit, diag_stopDiagOnSignal,
                   rde, diagResult, gpuVec, result, i, ret, overallRet, hist>>
    /\ UNCHANGED sigVars
    /\ UNCHANGED iterVars
    /\ UNCHANGED startVars
    /\ UNCHANGED pureVars

\* what AbortDiag::Execute can return: the stop request went through, or the
\* connection or dcgmStopDiagnostic failed
AbortReturns == {DCGM_ST_OK, DCGM_ST_GENERIC_ERROR}

\* lines 476-477: AbortDiag ad(m_hostname); ad.Execute(); its return is dropped
ExecuteDiagOnServer_Abort ==
    /\ pc = "abort"
    /\ \E r \in AbortReturns : hist' = [hist EXCEPT !.aborts = @ + 1, !.abortRet = r]
    /\ pc' = "stop"
    /\ UNCHANGED <<m_iterations, m_jsonOutput, m_drd, g_signalExit, diag_stopDiagOnSignal,
                   rde, diagResult, gpuVec, result, i, ret, overallRet>>
    /\ UNCHANGED sigVars
    /\ UNCHANGED iterVars
    /\ UNCHANGED startVars
    /\ UNCHANGED pureVars

\* a mutant of KilledOutcome: a failed abort request becomes the outcome
KilledOutcome_AbortEscalates(abortRet) ==
    IF abortRet # DCGM_ST_OK THEN abortRet ELSE DCGM_ST_NVVS_KILLED

\* line 479: the outcome of the cancellation path
KilledOutcome(abortRet) == DCGM_ST_NVVS_KILLED

\* a mutant of ExecuteDiagOnServer_Stop: a dispatch that has completed by now
\* still has its return code and response read
ExecuteDiagOnServer_Stop_ReadsResult ==
    /\ pc = "stop"
    /\ rde' = [rde EXCEPT !.state = "stopped"]
    /\ IF rde.state = "exited"
       THEN /\ result' = rde.m_result
            /\ diagResult' = rde.m_diagResult
            /\ hist' = [hist EXCEPT !.reads = @ + 1]
       ELSE /\ result' = KilledOutcome(hist.abortRet)
            /\ hist' = [hist EXCEPT !.inflight = IF rde.state = "running" THEN @ - 1 ELSE @]
            /\ UNCHANGED diagResult
    /\ pc' = "exec_disarm"
    /\ UNCHANGED <<m_iterations, m_jsonOutput, m_drd, g_signalExit, diag_stopDiagOnSignal,
                   gpuVec, i, ret, overallRet>>
    /\ UNCHANGED sigVars
    /\ UNCHANGED iterVars
    /\ UNCHANGED startVars
    /\ UNCHANGED pureVars

\* lines 478-480: rde->Stop(); result = DCGM_ST_NVVS_KILLED; break
ExecuteDiagOnServer_Stop ==
    /\ pc = "stop"
    /\ rde' = [rde EXCEPT !.state = "stopped"]
    /\ result' = KilledOutcome(hist.abortRet)
    /\ hist' = [hist EXCEPT !.inflight = IF rde.state = "running" THEN @ - 1 ELSE @]
    /\ pc' = "exec_disarm"
    /\ UNCHANGED <<m_iterations, m_jsonOutput, m_drd, g_signalExit, diag_stopDiagOnSignal,
                   diagResult, gpuVec, i, ret, overallRet>>
    /\ UNCHANGED sigVars
    /\ UNCHANGED iterVars
    /\ UNCHANGED startVars
    /\ UNCHANGED pureVars

\* a mutant of ExecuteDiagOnServer_Disarm: the flag is cleared only when the
\* dispatch completed, not when the run was killed
ExecuteDiagOnServer_Disarm_OnlyOnCompletion ==
    /\ pc = "exec_disarm"
    /\ diag_stopDiagOnSignal' = (result = DCGM_ST_NVVS_KILLED)
    /\ pc' = "exec_return"
    /\ UNCHANGED <<m_iterations, m_jsonOutput, m_drd, g_signalExit, rde, diagResult,
                   gpuVec, result, i, ret, overallRet, hist>>
    /\ UNCHANGED sigVars
    /\ UNCHANGED iterVars
    /\ UNCHANGED startVars
    /\ UNCHANGED pureVars

\* line 494
ExecuteDiagOnServer_Disarm ==
    /\ pc = "exec_disarm"
    /\ diag_stopDiagOnSignal' = FALSE
    /\ pc' = "exec_return"
    /\ UNCHANGED <<m_iterations, m_jsonOutput, m_drd, g_signalExit, rde, diagResult,
                   gpuVec, result, i, ret, overallRet, hist>>
    /\ UNCHANGED sigVars
    /\ UNCHANGED iterVars
    /\ UNCHANGED startVars
    /\ UNCHANGED pureVars

\* line 496-497: return result; rde goes out of scope
ExecuteDiagOnServer_Return ==
    /\ pc = "exec_return"
    /\ rde' = NoRde
    /\ hist' = [hist EXCEPT !.transport = result]
    /\ pc' = "once_check"
    /\ UNCHANGED <<m_iterations, m_jsonOutput, m_drd, g_signalExit, diag_stopDiagOnSignal,
                   diagResult, gpuVec, result, i, ret, overallRet>>
    /\ UNCHANGED sigVars
    /\ UNCHANGED iterVars
    /\ UNCHANGED startVars
    /\ UNCHANGED pureVars

\* the fixed messages of lines 368, 374, 379 and the pieces of the others
MSG_GROUP_INCOMPATIBLE ==
    "Error: Diagnostic can only be performed on a homogeneous group of GPUs."
MSG_NOT_SUPPORTED ==
    "Error: Diagnostic could not be run because the Tesla recommended driver is not being used."
MSG_PAUSED == "Error: Diagnostic could not be run while DCGM is paused."
MSG_UNABLE == "Error: Unable to complete diagnostic for group"
MSG_COULD_NOT_STOP == "\nError: Could not stop the launched diagnostic."

\* what dcgmStopDiagnostic can return at line 398
StopReturns == {DCGM_ST_OK, DCGM_ST_GENERIC_ERROR}

\* an entry of the log: HelperDisplayFailureMessage(errMsg, ..) in text or
\* structured mode, or a dcgmStopDiagnostic call with its return value
FailureMessage(jsonOutput, errMsg) ==
    [ev |-> IF jsonOutput THEN "NVVS_RUNTIME_ERROR" ELSE "errMsg", arg |-> errMsg]
StopRequest(r) == [ev |-> "dcgmStopDiagnostic", arg |-> <<r>>]

\* a mutant of FailureBranch: DCGM_ST_PAUSED is not told from the other codes
FailureBranch_PausedIsGeneric(r, jsonOutput, systemError) ==
    CASE r = DCGM_ST_GROUP_INCOMPATIBLE -> "group"
      [] r = DCGM_ST_NOT_SUPPORTED -> "driver"
      [] r # DCGM_ST_OK -> "generic"
      [] jsonOutput = FALSE /\ systemError # "" -> "soft"
      [] OTHER -> "none"

\* a mutant of FailureBranch: the soft failure does not look at the output mode
FailureBranch_SoftInAnyMode(r, jsonOutput, systemError) ==
    CASE r = DCGM_ST_GROUP_INCOMPATIBLE -> "group"
      [] r = DCGM_ST_NOT_SUPPORTED -> "driver"
      [] r = DCGM_ST_PAUSED -> "paused"
      [] r # DCGM_ST_OK -> "generic"
      [] systemError # "" -> "soft"
      [] OTHER -> "none"

\* a mutant of FailureBranch: a killed run goes on to its report
FailureBranch_KilledRenders(r, jsonOutput, systemError) ==
    CASE r = DCGM_ST_GROUP_INCOMPATIBLE -> "group"
      [] r = DCGM_ST_NOT_SUPPORTED -> "driver"
      [] r = DCGM_ST_PAUSED -> "paused"
      [] r # DCGM_ST_OK /\ r # DCGM_ST_NVVS_KILLED -> "generic"
      [] jsonOutput = FALSE /\ systemError # "" -> "soft"
      [] OTHER -> "none"

\* the if / else-if chain of lines 366-415
FailureBranch(r, jsonOutput, systemError) ==
    CASE r = DCGM_ST_GROUP_INCOMPATIBLE -> "group"
      [] r = DCGM_ST_NOT_SUPPORTED -> "driver"
      [] r = DCGM_ST_PAUSED -> "paused"
      [] r # DCGM_ST_OK -> "generic"
      [] jsonOutput = FALSE /\ systemError # "" -> "soft"
      [] OTHER -> "none"

\* lines 384-393: the message of the generic branch before any stop request
GenericErrMsg(r, systemError) ==
    IF systemError # "" THEN <<systemError>> ELSE <<MSG_UNABLE, r>>

\* a mutant of GenericFailure: the message is displayed, then the stop request made
GenericFailure_MessageFirst(r, jsonOutput, systemError, stopRet) ==
    IF r = DCGM_ST_TIMEOUT
    THEN <<FailureMessage(jsonOutput, GenericErrMsg(r, systemError)), StopRequest(stopRet)>>
    ELSE <<FailureMessage(jsonOutput, GenericErrMsg(r, systemError))>>

\* a mutant of GenericFailure: every failure of the generic branch stops the run
GenericFailure_AlwaysStops(r, jsonOutput, systemError, stopRet) ==
    <<StopRequest(stopRet),
      FailureMessage(jsonOutput,
                     IF stopRet # DCGM_ST_OK
                     THEN Append(GenericErrMsg(r, systemError), MSG_COULD_NOT_STOP)
                     ELSE GenericErrMsg(r, systemError))>>

\* lines 382-408: what the generic branch does, in order
GenericFailure(r, jsonOutput, systemError, stopRet) ==
    IF r = DCGM_ST_TIMEOUT
    THEN <<StopRequest(stopRet),
           FailureMessage(jsonOutput,
                          IF stopRet # DCGM_ST_OK
                          THEN Append(GenericErrMsg(r, systemError), MSG_COULD_NOT_STOP)
                          ELSE GenericErrMsg(r, systemError))>>
    ELSE <<FailureMessage(jsonOutput, GenericErrMsg(r, systemError))>>

\* RunDiagOnce, lines 366-415: the failure paths
RunDiagOnce_Check ==
    /\ pc = "once_check"
    /\ LET b == FailureBranch(result, m_jsonOutput, diagResult.systemError)
       IN  CASE b = "group" ->
                  /\ hist' = [hist EXCEPT !.log =
                                 @ \o <<FailureMessage(m_jsonOutput, <<MSG_GROUP_INCOMPATIBLE>>)>>]
                  /\ pc' = "once_return"
                  /\ UNCHANGED result
             [] b = "driver" ->
                  /\ hist' = [hist EXCEPT !.log =
                                 @ \o <<FailureMessage(m_jsonOutput, <<MSG_NOT_SUPPORTED>>)>>]
                  /\ pc' = "once_return"
                  /\ UNCHANGED result
             [] b = "paused" ->
                  /\ hist' = [hist EXCEPT !.log =
                                 @ \o <<FailureMessage(m_jsonOutput, <<MSG_PAUSED>>)>>]
                  /\ pc' = "once_return"
                  /\ UNCHANGED result
             [] b = "generic" ->
                  /\ \E stopRet \in (IF result = DCGM_ST_TIMEOUT THEN StopReturns
                                      ELSE {DCGM_ST_OK}) :
                        LET done == GenericFailure(result, m_jsonOutput,
                                                   diagResult.systemError, stopRet)
                        IN  hist' = [hist EXCEPT
                                       !.log = @ \o done,
                                       !.stops = @ + Cardinality(
                                           {k \in 1 .. Len(done) :
                                               done[k].ev = "dcgmStopDiagnostic"})]
                  /\ pc' = "once_return"
                  /\ UNCHANGED result
             [] b = "soft" ->
                  /\ hist' = [hist EXCEPT !.log =
                                 @ \o <<FailureMessage(m_jsonOutput,
                                           <<"Error: ", diagResult.systemError, "\n">>)>>]
                  /\ result' = DCGM_ST_NVVS_ERROR
                  /\ pc' = "once_return"
             [] OTHER ->
                  /\ pc' = "once_gpus"
                  /\ UNCHANGED <<result, hist>>
    /\ UNCHANGED <<m_iterations, m_jsonOutput, m_drd, g_signalExit, diag_stopDiagOnSignal,
                   rde, diagResult, gpuVec, i, ret, overallRet>>
    /\ UNCHANGED sigVars
    /\ UNCHANGED iterVars
    /\ UNCHANGED startVars
    /\ UNCHANGED pureVars

\* RunDiagOnce, lines 417-428
RunDiagOnce_GpuList ==
    /\ pc = "once_gpus"
    /\ gpuVec' = DeriveGpuVec(m_drd.gpuList, diagResult)
    /\ pc' = "once_render"
    /\ UNCHANGED <<m_iterations, m_jsonOutput, m_drd, g_signalExit, diag_stopDiagOnSignal,
                   rde, diagResult, result, i, ret, overallRet, hist>>
    /\ UNCHANGED sigVars
    /\ UNCHANGED iterVars
    /\ UNCHANGED startVars
    /\ UNCHANGED pureVars

\* the document HelperJsonBuildOutput (line 1254) builds in a run.  Here a
\* document is known by the run it was built in, the iteration the request
\* names; what it holds is HelperJsonBuildOutput above.
Fragment(drd) == [iteration |-> drd.currentIteration]

\* HelperDisplayAsJson, lines 1256-1263: the new value of m_jsonTmpValue; with
\* one iteration the document is written to stdout and not kept
HelperDisplayAsJson(iterations, drd, jsonTmpValue) ==
    IF iterations <= 1 THEN jsonTmpValue ELSE Fragment(drd)

\* lines 91-94: the display names, in the order of dcgmSoftwareTest_enum
levelOneTests ==
    <<"Denylist", "NVML Library", "CUDA Main Library", "CUDA Toolkit Library",
      "Permissions and OS Blocks", "Persistence Mode", "Environment Variables",
      "Page Retirement/Row Remap", "Graphics Processes", "Inforom">>

\* the index of the CUDA runtime library check, the fourth of the enumeration
IsCudaRuntimeLibrary(testIndex) ==
    /\ testIndex < Len(levelOneTests)
    /\ levelOneTests[testIndex + 1] = "CUDA Toolkit Library"

\* HelperDisplayDeploymentResult, lines 568-571: a level-one test that was run
\* is shown with the word HelperDisplayDiagResult has for its status
DeploymentShowsFail(d) ==
    \E l \in L1Idx :
        /\ l < d.levelOneTestCount
        /\ d.levelOneResults[l].status # DCGM_DIAG_RESULT_NOT_RUN
        /\ HelperDisplayDiagResult(d.levelOneResults[l].status) = "Fail"

\* HelperJsonAddBasicTests, lines 988-997: every level-one test but the CUDA
\* runtime library check that was not run has a status in the document
JsonDeploymentShowsFail(d) ==
    \E l \in L1Idx :
        /\ l < d.levelOneTestCount
        /\ ~(/\ IsCudaRuntimeLibrary(l)
             /\ d.levelOneResults[l].status = DCGM_DIAG_RESULT_NOT_RUN)
        /\ HelperDisplayDiagResult(d.levelOneResults[l].status) = "Fail"

\* the report of RunDiagOnce (lines 430-452) has the status "Fail" somewhere:
\* for a level-one test, in a "Fail" row of HelperDisplayGpuResults, or in an
\* entry HelperJsonAddResult made
ReportShowsFail(jsonOutput, d, gpuIndices) ==
    IF jsonOutput
    THEN \/ JsonDeploymentShowsFail(d)
         \/ \E t \in Tests :
               LET results == JsonTestEntry(d, gpuIndices, t).results
               IN  \E n \in 1 .. Len(results) :
                      results[n] # JsonNull /\ results[n].status = "Fail"
    ELSE \/ DeploymentShowsFail(d)
         \/ /\ Len(gpuIndices) > 0
            /\ \E t \in Tests :
                  HelperDisplayGpuResults(t, d.perGpuResponses, gpuIndices).failed # <<>>

\* RunDiagOnce, lines 430-452: HelperDisplayAsJson returns DCGM_ST_OK
RunDiagOnce_Render ==
    /\ pc = "once_render"
    /\ result' = IF m_jsonOutput THEN DCGM_ST_OK ELSE result
    /\ m_jsonTmpValue' = IF m_jsonOutput
                         THEN HelperDisplayAsJson(m_iterations, m_drd, m_jsonTmpValue)
                         ELSE m_jsonTmpValue
    /\ hist' = [hist EXCEPT !.rendered = TRUE,
                            !.showsFail = ReportShowsFail(m_jsonOutput, diagResult, gpuVec)]
    /\ pc' = "once_classify"
    /\ UNCHANGED <<m_iterations, m_jsonOutput, m_drd, g_signalExit, diag_stopDiagOnSignal,
                   rde, diagResult, gpuVec, i, ret, overallRet>>
    /\ UNCHANGED output
    /\ UNCHANGED sigVars
    /\ UNCHANGED startVars
    /\ UNCHANGED pureVars

\* RunDiagOnce, lines 454-457
RunDiagOnce_Classify ==
    /\ pc = "once_classify"
    /\ result' = IF result = DCGM_ST_OK THEN GetFailureResult(diagResult) ELSE result
    /\ hist' = [hist EXCEPT !.classified = (result = DCGM_ST_OK)]
    /\ pc' = "once_return"
    /\ UNCHANGED <<m_iterations, m_jsonOutput, m_drd, g_signalExit, diag_stopDiagOnSignal,
                   rde, diagResult, gpuVec, i, ret, overallRet>>
    /\ UNCHANGED sigVars
    /\ UNCHANGED iterVars
    /\ UNCHANGED startVars
    /\ UNCHANGED pureVars

\* RunDiagOnce returns: to line 505 (one run) or to line 521 (the loop)
RunDiagOnce_Return ==
    /\ pc = "once_return"
    /\ hist' = [hist EXCEPT !.rets = Append(@, result)]
    /\ IF m_iterations <= 1
       THEN /\ overallRet' = result
            /\ pc' = "returned"
            /\ UNCHANGED ret
       ELSE /\ ret' = result
            /\ pc' = "iter_check"
            /\ UNCHANGED overallRet
    /\ UNCHANGED <<m_iterations, m_jsonOutput, m_drd, g_signalExit, diag_stopDiagOnSignal,
                   rde, diagResult, gpuVec, result, i>>
    /\ UNCHANGED sigVars
    /\ UNCHANGED iterVars
    /\ UNCHANGED startVars
    /\ UNCHANGED pureVars

\* a mutant of LoopExit: a failed iteration does not end the loop
LoopExit_KeepGoing(r) == FALSE

\* line 524: if (ret != DCGM_ST_OK) { overallRet = ret; ... break; }
LoopExit(r) == r # DCGM_ST_OK

\* RunStartDiag, lines 522-535: the end of the loop body and i++
RunStartDiag_IterCheck ==
    /\ pc = "iter_check"
    /\ IF LoopExit(ret)
       THEN /\ overallRet' = ret
            /\ output' = IF m_jsonOutput
                         THEN [output EXCEPT
                                  !.iterations = JsonArraySet(@, i, m_jsonTmpValue),
                                  !.result = JsonString("Fail"),
                                  !.warning = JsonString(ret)]
                         ELSE [output EXCEPT
                                  !.iterations = JsonArraySet(@, i, m_jsonTmpValue)]
            /\ pc' = "finish"
            /\ UNCHANGED i
       ELSE /\ i' = i + 1
            /\ output' = [output EXCEPT
                             !.iterations = JsonArraySet(@, i, m_jsonTmpValue)]
            /\ pc' = "loop_head"
            /\ UNCHANGED overallRet
    /\ UNCHANGED <<m_iterations, m_jsonOutput, m_drd, g_signalExit, diag_stopDiagOnSignal,
                   rde, diagResult, gpuVec, result, ret, hist>>
    /\ UNCHANGED m_jsonTmpValue
    /\ UNCHANGED sigVars
    /\ UNCHANGED startVars
    /\ UNCHANGED pureVars

\* lines 528-532 and 537-554: what the summary of the iterations says
RunSummary(jsonOutput, r, iterations) ==
    IF jsonOutput
    THEN IF r = DCGM_ST_OK
         THEN [ev |-> "NVVS_RESULT", arg |-> <<"Pass">>]
         ELSE [ev |-> "NVVS_WARNING", arg |-> <<"Fail", r>>]
    ELSE IF r = DCGM_ST_OK
         THEN [ev |-> "Passed all", arg |-> <<iterations>>]
         ELSE [ev |-> "Aborting", arg |-> <<r>>]

\* a mutant of RunStartDiag_Finish: the summary says passed whatever the outcome
RunStartDiag_Finish_AlwaysPass ==
    /\ pc = "finish"
    /\ output' = IF m_jsonOutput THEN [output EXCEPT !.result = JsonString("Pass")] ELSE output
    /\ hist' = [hist EXCEPT !.log = Append(@, RunSummary(m_jsonOutput, DCGM_ST_OK, m_iterations))]
    /\ pc' = "returned"
    /\ UNCHANGED <<m_iterations, m_jsonOutput, m_drd, g_signalExit, diag_stopDiagOnSignal,
                   rde, diagResult, gpuVec, result, i, ret, overallRet>>
    /\ UNCHANGED m_jsonTmpValue
    /\ UNCHANGED sigVars
    /\ UNCHANGED startVars
    /\ UNCHANGED pureVars

\* RunStartDiag, lines 537-556: the summary and the return
RunStartDiag_Finish ==
    /\ pc = "finish"
    /\ output' = IF m_jsonOutput /\ overallRet = DCGM_ST_OK
                 THEN [output EXCEPT !.result = JsonString("Pass")]
                 ELSE output
    /\ hist' = [hist EXCEPT !.log = Append(@, RunSummary(m_jsonOutput, overallRet, m_iterations))]
    /\ pc' = "returned"
    /\ UNCHANGED <<m_iterations, m_jsonOutput, m_drd, g_signalExit, diag_stopDiagOnSignal,
                   rde, diagResult, gpuVec, result, i, ret, overallRet>>
    /\ UNCHANGED m_jsonTmpValue
    /\ UNCHANGED sigVars
    /\ UNCHANGED startVars
    /\ UNCHANGED pureVars

Next ==
    \/ Signal_Default
    \/ Signal
    \/ RunStartDiag_Enter
    \/ RunStartDiag_LoopHead
    \/ RunDiagOnce_Enter
    \/ ExecuteDiagOnServer_Arm
    \/ ExecuteDiagOnServer_Start
    \/ RemoteDiagExecutor_run
    \/ ExecuteDiagOnServer_Poll
    \/ ExecuteDiagOnServer_Sleep
    \/ ExecuteDiagOnServer_Abort
    \/ ExecuteDiagOnServer_Stop
    \/ ExecuteDiagOnServer_Disarm
    \/ ExecuteDiagOnServer_Return
    \/ RunDiagOnce_Check
    \/ RunDiagOnce_GpuList
    \/ RunDiagOnce_Render
    \/ RunDiagOnce_Classify
    \/ RunDiagOnce_Return
    \/ RunStartDiag_IterCheck
    \/ RunStartDiag_Finish

Spec == Init /\ [][Next]_vars

\* the steps of the thread that called RunStartDiag: every step but the
\* delivery of a signal and the completion of the dispatch on its own thread
MainThread ==
    \/ RunStartDiag_Enter
    \/ RunStartDiag_LoopHead
    \/ RunDiagOnce_Enter
    \/ ExecuteDiagOnServer_Arm
    \/ ExecuteDiagOnServer_Start
    \/ ExecuteDiagOnServer_Poll
    \/ ExecuteDiagOnServer_Sleep
    \/ ExecuteDiagOnServer_Abort
    \/ ExecuteDiagOnServer_Stop
    \/ ExecuteDiagOnServer_Disarm
    \/ ExecuteDiagOnServer_Return
    \/ RunDiagOnce_Check
    \/ RunDiagOnce_GpuList
    \/ RunDiagOnce_Render
    \/ RunDiagOnce_Classify
    \/ RunDiagOnce_Return
    \/ RunStartDiag_IterCheck
    \/ RunStartDiag_Finish

\* the program with a calling thread that keeps running: sleep_for (line 490)
\* returns and every call of the loop body returns.  Nothing is assumed of
\* the dispatch thread or of signals.  Every step of the thread moves pc.
SpecLive == Init /\ [][Next]_vars /\ WF_pc(MainThread)

(***************************************************************************)
(* The pure operations, each applied to inputs drawn from a bounded set.   *)
(* The program's own variables rest at their initial values.               *)
(***************************************************************************)
InitIdle(filters) ==
    /\ m_iterations = 1
    /\ m_jsonOutput = FALSE
    /\ m_drd \in {[gpuList |-> f, totalIterations |-> 0, currentIteration |-> 0] :
                     f \in filters}
    /\ g_signalExit = FALSE
    /\ diag_stopDiagOnSignal = FALSE
    /\ pc = "idle"
    /\ rde = NoRde
    /\ diagResult = ZeroResponse
    /\ gpuVec = <<>>
    /\ result = DCGM_ST_OK
    /\ i = 0
    /\ ret = DCGM_ST_OK
    /\ overallRet = DCGM_ST_OK
    /\ hist = InitHist
    /\ InitSigHandlers
    /\ InitIter
    /\ InitStartIdle

\* ---- SpecClassify ----
ClassifyResponses(levels) ==
    {SetCell(SetCell(BaseResponse(Devices, DCGM_MAX_NUM_DEVICES, n), a1, c1), a2, c2) :
        n \in levels, a1 \in CellAddrs, a2 \in CellAddrs,
        c1 \in ErrCells, c2 \in ErrCells}

InitClassify ==
    /\ InitIdle({<<>>})
    /\ resp \in ClassifyResponses(0 .. MaxLevelOne)
    /\ op = {}
    /\ retval = "none"
    /\ textReport = <<>>
    /\ jsonDoc = <<>>
    /\ toOutput = <<>>
    /\ sanitized = <<>>
    /\ InitWrapIdle

Classify ==
    /\ "GetFailureResult" \notin op
    /\ retval' = GetFailureResult(resp)
    /\ op' = op \cup {"GetFailureResult"}
    /\ UNCHANGED <<resp, textReport, jsonDoc, toOutput, sanitized>>
    /\ UNCHANGED wrapVars
    /\ UNCHANGED ctlVars

NextClassify == Classify

SpecClassify == InitClassify /\ [][NextClassify]_vars

\* ---- SpecRender ----
GpuAddrs == {<<"gpu", g, t>> : g \in Devices, t \in Tests}

RenderResponses(counts) ==
    {SetCell(SetCell(BaseResponse(pop, n, MaxLevelOne), a1, c1), a2, c2) :
        pop \in SUBSET Devices, n \in counts,
        a1 \in GpuAddrs, a2 \in GpuAddrs, c1 \in StatusCells, c2 \in StatusCells}

\* no filter, or a list of one or two slot indices in any order
RenderFilters ==
    {<<>>} \cup {<<g>> : g \in Devices} \cup {<<g, h>> : g \in Devices, h \in Devices}

InitRender ==
    /\ InitIdle(RenderFilters)
    /\ resp \in RenderResponses(0 .. DCGM_MAX_NUM_DEVICES)
    /\ op = {}
    /\ retval = "none"
    /\ textReport = <<>>
    /\ jsonDoc = <<>>
    /\ toOutput = <<>>
    /\ sanitized = <<>>
    /\ InitWrapIdle

\* RunDiagOnce, lines 417-428
Render_GpuList ==
    /\ "gpus" \notin op
    /\ gpuVec' = DeriveGpuVec(m_drd.gpuList, resp)
    /\ op' = op \cup {"gpus"}
    /\ UNCHANGED <<m_iterations, m_jsonOutput, m_drd, g_signalExit, diag_stopDiagOnSignal,
                   pc, rde, diagResult, result, i, ret, overallRet, hist>>
    /\ UNCHANGED sigVars
    /\ UNCHANGED iterVars
    /\ UNCHANGED startVars
    /\ UNCHANGED <<resp, retval, textReport, jsonDoc, toOutput, sanitized>>
    /\ UNCHANGED wrapVars

\* RunDiagOnce, lines 444-449: the per-GPU sections of the text report
Render_Text ==
    /\ "gpus" \in op
    /\ "text" \notin op
    /\ textReport' = IF Len(gpuVec) > 0
                     THEN [t \in Tests |->
                             HelperDisplayGpuResults(t, resp.perGpuResponses, gpuVec)]
                     ELSE <<>>
    /\ op' = op \cup {"text"}
    /\ UNCHANGED <<resp, retval, jsonDoc, toOutput, sanitized>>
    /\ UNCHANGED wrapVars
    /\ UNCHANGED ctlVars

\* HelperJsonBuildOutput, lines 1197-1209: the results array of every plugin
Render_Json ==
    /\ "gpus" \in op
    /\ "json" \notin op
    /\ jsonDoc' = [t \in Tests |-> JsonTestEntry(resp, gpuVec, t)]
    /\ op' = op \cup {"json"}
    /\ UNCHANGED <<resp, retval, textReport, toOutput, sanitized>>
    /\ UNCHANGED wrapVars
    /\ UNCHANGED ctlVars

NextRender ==
    \/ Render_GpuList
    \/ Render_Text
    \/ Render_Json

SpecRender == InitRender /\ [][NextRender]_vars

(***************************************************************************)
(* The report as a whole: which sections the text report has (RunDiagOnce, *)
(* lines 436-451) and which categories the structured document has         *)
(* (HelperJsonBuildOutput).  The category of a plugin is decided by its    *)
(* index, so the responses of this part have MaxPlugins per-GPU tests, one *)
(* at least in every category.                                             *)
(***************************************************************************)
MaxPlugins == 4                  \* per-GPU tests in a slot of these responses

\* dcgmPerGpuTestIndices_t, in the order of the enumeration: the labels of
\* HelperGetPluginName's switch
PluginIndices ==
    <<"DCGM_MEMORY_INDEX", "DCGM_DIAGNOSTIC_INDEX", "DCGM_PCI_INDEX",
      "DCGM_SM_STRESS_INDEX", "DCGM_TARGETED_STRESS_INDEX", "DCGM_TARGETED_POWER_INDEX",
      "DCGM_MEMORY_BANDWIDTH_INDEX", "DCGM_MEMTEST_INDEX", "DCGM_PULSE_TEST_INDEX",
      "DCGM_EUD_TEST_INDEX">>

PluginLabel(index) ==
    IF index < Len(PluginIndices) THEN PluginIndices[index + 1] ELSE "DCGM_UNKNOWN_INDEX"

DocTests == 0 .. (MaxPlugins - 1)

DISPLAY_DEPLOYMENT  == "Deployment"
DISPLAY_HARDWARE    == "Hardware"
DISPLAY_INTEGRATION == "Integration"
DISPLAY_STRESS      == "Stress"

\* Diag::HelperGetPluginName
HelperGetPluginName(drd, index) ==
    LET l == PluginLabel(index)
    IN  CASE l = "DCGM_MEMORY_INDEX" ->
               IF drd.testNames[1] = "CTXCREATE_PLUGIN_NAME"
               THEN "Context Create" ELSE "GPU Memory"
          [] l = "DCGM_DIAGNOSTIC_INDEX"       -> "Diagnostic"
          [] l = "DCGM_PCI_INDEX"              -> "PCIe"
          [] l = "DCGM_SM_STRESS_INDEX"        -> "SM Stress"
          [] l = "DCGM_TARGETED_STRESS_INDEX"  -> "Targeted Stress"
          [] l = "DCGM_TARGETED_POWER_INDEX"   -> "Targeted Power"
          [] l = "DCGM_MEMORY_BANDWIDTH_INDEX" -> "Memory Bandwidth"
          [] l = "DCGM_MEMTEST_INDEX"          -> "Memtest"
          [] l = "DCGM_PULSE_TEST_INDEX"       -> "Pulse Test"
          [] l = "DCGM_EUD_TEST_INDEX"         -> "EUD Test"
          [] OTHER                             -> ""

\* the switch of lines 1213-1236: the category object a plugin that ran is added to
PluginCategory(pluginIndex) ==
    LET l == PluginLabel(pluginIndex)
    IN  CASE l \in {"DCGM_MEMORY_INDEX", "DCGM_DIAGNOSTIC_INDEX",
                    "DCGM_PULSE_TEST_INDEX", "DCGM_EUD_TEST_INDEX"} -> DISPLAY_HARDWARE
          [] l = "DCGM_PCI_INDEX" -> DISPLAY_INTEGRATION
          [] l \in {"DCGM_SM_STRESS_INDEX", "DCGM_TARGETED_STRESS_INDEX",
                    "DCGM_TARGETED_POWER_INDEX", "DCGM_MEMORY_BANDWIDTH_INDEX",
                    "DCGM_MEMTEST_INDEX"} -> DISPLAY_STRESS
          [] OTHER -> "none"

\* a category object: category[NVVS_HEADER] and category[NVVS_TESTS]
Category(header) == [header |-> header, tests |-> <<>>]

\* Diag::HelperJsonAddPlugin; the category's test count is the length of tests
HelperJsonAddPlugin(category, pluginCount, testEntry) ==
    [category EXCEPT !.tests = JsonArraySet(@, pluginCount, testEntry)]

\* a mutant of HelperJsonAddCategory: a category without tests is added too
HelperJsonAddCategory_Always(headers, category, categoryCount) ==
    JsonArraySet(headers, Len(headers), category)

\* Diag::HelperJsonAddCategory; categoryIndex is the number of headers so far
HelperJsonAddCategory(headers, category, categoryCount) ==
    IF categoryCount > 0
    THEN JsonArraySet(headers, Len(headers), category)
    ELSE headers

RECURSIVE BasicTestsLoop(_, _, _, _)
\* HelperJsonAddBasicTests, lines 984-1016: one entry per level-one test, the
\* CUDA runtime library check left out, and the later entries moved up, if not run
BasicTestsLoop(d, testIndex, adjustment, tests) ==
    IF testIndex >= d.levelOneTestCount
    THEN tests
    ELSE IF /\ IsCudaRuntimeLibrary(testIndex)
            /\ d.levelOneResults[testIndex].status = DCGM_DIAG_RESULT_NOT_RUN
         THEN BasicTestsLoop(d, testIndex + 1, -1, tests)
         ELSE BasicTestsLoop(d, testIndex + 1, adjustment,
                 JsonArraySet(tests, testIndex + adjustment,
                     [test_name |-> levelOneTests[testIndex + 1],
                      results   |-> <<[status |-> HelperDisplayDiagResult(
                                          d.levelOneResults[testIndex].status)]>>]))

\* a mutant of HelperJsonAddBasicTests: the array index starts off by one
HelperJsonAddBasicTests_OffByOne(headers, d) ==
    JsonArraySet(headers, Len(headers),
                 [Category(DISPLAY_DEPLOYMENT) EXCEPT
                     !.tests = BasicTestsLoop(d, 0, 1, <<>>)])

\* Diag::HelperJsonAddBasicTests: headers[categoryIndex] = category, always
HelperJsonAddBasicTests(headers, d) ==
    JsonArraySet(headers, Len(headers),
                 [Category(DISPLAY_DEPLOYMENT) EXCEPT
                     !.tests = BasicTestsLoop(d, 0, 0, <<>>)])

\* the size of the results array of a per-GPU slot, the bound of the loop at
\* line 1197
PerGpuTestCount(d) == Cardinality(DOMAIN d.perGpuResponses[0].results)

RECURSIVE PluginLoop(_, _, _, _, _)
\* HelperJsonBuildOutput, lines 1197-1238; cats holds the three category objects
PluginLoop(drd, d, gpuIndices, pluginIndex, cats) ==
    IF pluginIndex >= PerGpuTestCount(d)
    THEN cats
    ELSE LET e == JsonTestEntry(d, gpuIndices, pluginIndex)
             testEntry == [test_name |-> HelperGetPluginName(drd, pluginIndex),
                           results   |-> e.results]
             c == PluginCategory(pluginIndex)
         IN  PluginLoop(drd, d, gpuIndices, pluginIndex + 1,
                IF e.pluginRan /\ c # "none"
                THEN [cats EXCEPT ![c] = HelperJsonAddPlugin(@, Len(@.tests), testEntry)]
                ELSE cats)

\* Diag::HelperJsonBuildOutput: output[NVVS_NAME][NVVS_HEADERS]
HelperJsonBuildOutput(drd, d, gpuIndices) ==
    LET cats == PluginLoop(drd, d, gpuIndices, 0,
                    [c \in {DISPLAY_HARDWARE, DISPLAY_INTEGRATION, DISPLAY_STRESS} |->
                        Category(c)])
        h0 == HelperJsonAddBasicTests(<<>>, d)
        h1 == HelperJsonAddCategory(h0, cats[DISPLAY_INTEGRATION],
                                    Len(cats[DISPLAY_INTEGRATION].tests))
        h2 == HelperJsonAddCategory(h1, cats[DISPLAY_HARDWARE],
                                    Len(cats[DISPLAY_HARDWARE].tests))
    IN  [headers |-> HelperJsonAddCategory(h2, cats[DISPLAY_STRESS],
                                           Len(cats[DISPLAY_STRESS].tests))]

\* a section of the text report: its banner and the tests it has a summary of
Section(banner, tests) == [banner |-> banner, tests |-> tests]

\* Diag::HelperDisplayVersionAndDevIds
HelperDisplayVersionAndDevIds(d) ==
    Section("Metadata", <<"DCGM Version", "Driver Version Detected",
                          "GPU Device IDs Detected">>)

RECURSIVE DeploymentLoop(_, _, _)
\* HelperDisplayDeployment's loop over HelperDisplayDeploymentResult
DeploymentLoop(d, k, shown) ==
    IF k >= d.levelOneTestCount
    THEN shown
    ELSE DeploymentLoop(d, k + 1,
            IF d.levelOneResults[k].status # DCGM_DIAG_RESULT_NOT_RUN
            THEN Append(shown, levelOneTests[k + 1]) ELSE shown)

\* Diag::HelperDisplayDeployment
HelperDisplayDeployment(d) ==
    Section(DISPLAY_DEPLOYMENT, DeploymentLoop(d, 0, <<>>))

\* Diag::HelperDisplayIntegration
HelperDisplayIntegration(diagResults, gpuIndices) ==
    Section(DISPLAY_INTEGRATION, <<"DCGM_PCI_INDEX">>)

\* Diag::HelperDisplayHardware: the diagnostic is not shown if every GPU skipped it
HelperDisplayHardware(drd, diagResults, gpuIndices) ==
    LET skipped == \A k \in 1 .. Len(gpuIndices) :
                      diagResults[gpuIndices[k]].results[1].status = DCGM_DIAG_RESULT_SKIP
    IN  Section(DISPLAY_HARDWARE,
                <<IF drd.testNames[1] = "CTXCREATE_PLUGIN_NAME"
                  THEN "DCGM_CONTEXT_CREATE_INDEX" ELSE "DCGM_MEMORY_INDEX">>
                \o (IF skipped THEN <<>> ELSE <<"DCGM_DIAGNOSTIC_INDEX">>)
                \o <<"DCGM_PULSE_TEST_INDEX">>)

\* Diag::HelperDisplayPerformance
HelperDisplayPerformance(diagResults, gpuIndices) ==
    Section(DISPLAY_STRESS,
            <<"DCGM_SM_STRESS_INDEX", "DCGM_TARGETED_STRESS_INDEX",
              "DCGM_TARGETED_POWER_INDEX", "DCGM_MEMORY_BANDWIDTH_INDEX",
              "DCGM_MEMTEST_INDEX", "DCGM_EUD_TEST_INDEX">>)

\* a mutant of DisplayAsText: the per-GPU sections are shown for an empty GPU set too
DisplayAsText_NoGuard(drd, d, gpuIndices) ==
    <<HelperDisplayVersionAndDevIds(d), HelperDisplayDeployment(d),
      HelperDisplayIntegration(d.perGpuResponses, gpuIndices),
      HelperDisplayHardware(drd, d.perGpuResponses, gpuIndices),
      HelperDisplayPerformance(d.perGpuResponses, gpuIndices)>>

\* RunDiagOnce, lines 436-451: the sections of the text report, in order
DisplayAsText(drd, d, gpuIndices) ==
    <<HelperDisplayVersionAndDevIds(d), HelperDisplayDeployment(d)>>
    \o (IF Len(gpuIndices) > 0
        THEN <<HelperDisplayIntegration(d.perGpuResponses, gpuIndices),
               HelperDisplayHardware(drd, d.perGpuResponses, gpuIndices),
               HelperDisplayPerformance(d.perGpuResponses, gpuIndices)>>
        ELSE <<>>)

\* ---- SpecDoc ----
DocAddrs == {<<"gpu", g, t>> : g \in Devices, t \in DocTests}

DocCells == {Cell(s, NoErrors) : s \in {DCGM_DIAG_RESULT_PASS, DCGM_DIAG_RESULT_SKIP,
                                        DCGM_DIAG_RESULT_NOT_RUN}}

\* every per-GPU cell NOT_RUN but up to two; any set of populated slots
DocBase(populated, gpuCount) ==
    [BaseResponse(populated, gpuCount, MaxLevelOne) EXCEPT
        !.perGpuResponses = [g \in Devices |->
            [gpuId   |-> IF g \in populated THEN g ELSE DCGM_MAX_NUM_DEVICES,
             results |-> [t \in DocTests |-> Cell(DCGM_DIAG_RESULT_NOT_RUN, NoErrors)]]]]

DocResponses(pops) ==
    {SetCell(SetCell(DocBase(pop, n), a1, c1), a2, c2) :
        pop \in pops, n \in {0, DCGM_MAX_NUM_DEVICES},
        a1 \in DocAddrs, a2 \in DocAddrs, c1 \in DocCells, c2 \in DocCells}

\* no filter, the first slot, the last and the first slot
DocFilters == {<<>>, <<0>>, <<DCGM_MAX_NUM_DEVICES - 1, 0>>}

InitDoc ==
    /\ m_iterations = 1
    /\ m_jsonOutput \in BOOLEAN
    /\ m_drd \in {[gpuList |-> f, totalIterations |-> 0, currentIteration |-> 0,
                   testNames |-> <<n>>] :
                     f \in DocFilters, n \in {"", "CTXCREATE_PLUGIN_NAME"}}
    /\ g_signalExit = FALSE
    /\ diag_stopDiagOnSignal = FALSE
    /\ pc = "idle"
    /\ rde = NoRde
    /\ diagResult = ZeroResponse
    /\ gpuVec = <<>>
    /\ result = DCGM_ST_OK
    /\ i = 0
    /\ ret = DCGM_ST_OK
    /\ overallRet = DCGM_ST_OK
    /\ hist = InitHist
    /\ InitSigHandlers
    /\ InitIter
    /\ InitStartIdle
    /\ resp \in DocResponses(SUBSET Devices)
    /\ op = {}
    /\ retval = "none"
    /\ textReport = <<>>
    /\ jsonDoc = <<>>
    /\ toOutput = <<>>
    /\ sanitized = <<>>
    /\ InitWrapIdle

\* RunDiagOnce, lines 417-428, on the response resp
Doc_GpuList ==
    /\ op = {}
    /\ gpuVec' = DeriveGpuVec(m_drd.gpuList, resp)
    /\ op' = {"gpus"}
    /\ UNCHANGED <<m_iterations, m_jsonOutput, m_drd, g_signalExit, diag_stopDiagOnSignal,
                   pc, rde, diagResult, result, i, ret, overallRet, hist>>
    /\ UNCHANGED sigVars
    /\ UNCHANGED iterVars
    /\ UNCHANGED startVars
    /\ UNCHANGED <<resp, retval, textReport, jsonDoc, toOutput, sanitized>>
    /\ UNCHANGED wrapVars

\* RunDiagOnce, lines 430-452: the report in the format m_jsonOutput selects
Doc_Report ==
    /\ op = {"gpus"}
    /\ IF m_jsonOutput
       THEN /\ jsonDoc' = HelperJsonBuildOutput(m_drd, resp, gpuVec)
            /\ op' = op \cup {"json"}
            /\ UNCHANGED textReport
       ELSE /\ textReport' = DisplayAsText(m_drd, resp, gpuVec)
            /\ op' = op \cup {"text"}
            /\ UNCHANGED jsonDoc
    /\ UNCHANGED <<resp, retval, toOutput, sanitized>>
    /\ UNCHANGED wrapVars
    /\ UNCHANGED ctlVars

NextDoc ==
    \/ Doc_GpuList
    \/ Doc_Report

SpecDoc == InitDoc /\ [][NextDoc]_vars

\* ---- SpecCategory ----
\* Responses with a per-GPU test for every index of dcgmPerGpuTestIndices_t:
\* every slot populated, one test run on one GPU and no other
AllPlugins == 0 .. (Len(PluginIndices) - 1)

CategoryResponses ==
    {[BaseResponse(Devices, DCGM_MAX_NUM_DEVICES, MaxLevelOne) EXCEPT
         !.perGpuResponses = [g \in Devices |->
             [gpuId   |-> g,
              results |-> [t \in AllPlugins |->
                             Cell(IF g = a[1] /\ t = a[2]
                                  THEN a[3] ELSE DCGM_DIAG_RESULT_NOT_RUN, NoErrors)]]]] :
        a \in Devices \X AllPlugins \X (Statuses \ {DCGM_DIAG_RESULT_NOT_RUN})}

InitCategory ==
    /\ m_iterations = 1
    /\ m_jsonOutput \in BOOLEAN
    /\ m_drd \in {[gpuList |-> f, totalIterations |-> 0, currentIteration |-> 0,
                   testNames |-> <<n>>] :
                     f \in {<<>>, <<0>>}, n \in {"", "CTXCREATE_PLUGIN_NAME"}}
    /\ g_signalExit = FALSE
    /\ diag_stopDiagOnSignal = FALSE
    /\ pc = "idle"
    /\ rde = NoRde
    /\ diagResult = ZeroResponse
    /\ gpuVec = <<>>
    /\ result = DCGM_ST_OK
    /\ i = 0
    /\ ret = DCGM_ST_OK
    /\ overallRet = DCGM_ST_OK
    /\ hist = InitHist
    /\ InitSigHandlers
    /\ InitIter
    /\ InitStartIdle
    /\ resp \in CategoryResponses
    /\ op = {}
    /\ retval = "none"
    /\ textReport = <<>>
    /\ jsonDoc = <<>>
    /\ toOutput = <<>>
    /\ sanitized = <<>>
    /\ InitWrapIdle

NextCategory ==
    \/ Doc_GpuList
    \/ Doc_Report

SpecCategory == InitCategory /\ [][NextCategory]_vars

\* ---- SpecDeployment ----
MaxDeployment == 5               \* largest levelOneTestCount of these responses

\* Responses whose level-one results reach past the CUDA runtime library
\* check: any count up to MaxDeployment, every test below the count passed,
\* failed or not run; no per-GPU test run
DeploymentResponses(counts) ==
    {[DocBase(Devices, DCGM_MAX_NUM_DEVICES) EXCEPT
         !.levelOneTestCount = n,
         !.levelOneResults = [l \in 0 .. (MaxDeployment - 1) |->
                                 IF l < n THEN Cell(st[l], NoErrors) ELSE ZeroCell]] :
        n \in counts,
        st \in [0 .. (MaxDeployment - 1) ->
                   {DCGM_DIAG_RESULT_PASS, DCGM_DIAG_RESULT_FAIL, DCGM_DIAG_RESULT_NOT_RUN}]}

InitDeployment ==
    /\ m_iterations = 1
    /\ m_jsonOutput \in BOOLEAN
    /\ m_drd = [gpuList |-> <<>>, totalIterations |-> 0, currentIteration |-> 0,
                testNames |-> <<"">>]
    /\ g_signalExit = FALSE
    /\ diag_stopDiagOnSignal = FALSE
    /\ pc = "idle"
    /\ rde = NoRde
    /\ diagResult = ZeroResponse
    /\ gpuVec = <<>>
    /\ result = DCGM_ST_OK
    /\ i = 0
    /\ ret = DCGM_ST_OK
    /\ overallRet = DCGM_ST_OK
    /\ hist = InitHist
    /\ InitSigHandlers
    /\ InitIter
    /\ InitStartIdle
    /\ resp \in DeploymentResponses(0 .. MaxDeployment)
    /\ op = {}
    /\ retval = "none"
    /\ textReport = <<>>
    /\ jsonDoc = <<>>
    /\ toOutput = <<>>
    /\ sanitized = <<>>
    /\ InitWrapIdle

NextDeployment ==
    \/ Doc_GpuList
    \/ Doc_Report

SpecDeployment == InitDeployment /\ [][NextDeployment]_vars

(***************************************************************************)
(* The explicit GPU filter from the command line to the slots the report   *)
(* reads.  Here m_drd.gpuList is the string as dcgmTokenizeString splits   *)
(* it at the commas: a sequence of tokens, a token a sequence of           *)
(* characters.                                                             *)
(***************************************************************************)
Digits == <<"0", "1", "2", "3", "4", "5", "6", "7", "8", "9">>

isdigit(c) == \E n \in 1 .. Len(Digits) : Digits[n] = c

DigitValue(c) == (CHOOSE n \in 1 .. Len(Digits) : Digits[n] = c) - 1

\* StartDiag::validGpuListFormat: the first character of every token is a digit
validGpuListFormat(gpuList) ==
    \A k \in 1 .. Len(gpuList) : Len(gpuList[k]) > 0 /\ isdigit(gpuList[k][1])

RECURSIVE strtolLoop(_, _, _)
strtolLoop(str, k, acc) ==
    IF k > Len(str) \/ ~isdigit(str[k])
    THEN acc
    ELSE strtolLoop(str, k + 1, 10 * acc + DigitValue(str[k]))

\* strtol(str, NULL, 10) of a token without sign or leading blanks: the value
\* of its leading digits
strtol(str) == strtolLoop(str, 1, 0)

\* RunDiagOnce, lines 419-423: the filter as gpuVec holds it
ParseGpuList(gpuList) == [k \in 1 .. Len(gpuList) |-> strtol(gpuList[k])]

\* diagResults[gpuIndex] as the renderers read it: the slot, or for an index
\* past the array whatever the memory there holds
ReadSlots(diagResults, gpuIndices, beyond) ==
    [g \in DOMAIN diagResults \cup {gpuIndices[k] : k \in 1 .. Len(gpuIndices)} |->
        IF g \in DOMAIN diagResults THEN diagResults[g] ELSE beyond[g]]

\* ---- SpecFilter ----
FilterChars == {"0", "1", "9", "x"}

FilterTokens == {<<c>> : c \in FilterChars} \cup {<<c, e>> : c \in FilterChars, e \in FilterChars}

\* the filters typed: none, or one or two tokens
FilterStrings == {<<>>} \cup {<<a>> : a \in FilterTokens} \cup {<<a, b>> : a \in FilterTokens, b \in FilterTokens}

\* what a read past the slots can find
BeyondSlots ==
    {[gpuId |-> id, results |-> [t \in Tests |-> Cell(st, NoErrors)]] :
        id \in {0, DCGM_MAX_NUM_DEVICES},
        st \in {DCGM_DIAG_RESULT_PASS, DCGM_DIAG_RESULT_FAIL, DCGM_DIAG_RESULT_NOT_RUN}}

\* every slot populated, test 0 of GPU 0 with any status
FilterResponses ==
    {SetCell(BaseResponse(Devices, DCGM_MAX_NUM_DEVICES, MaxLevelOne), <<"gpu", 0, 0>>, c) :
        c \in StatusCells}

\* the StartDiag constructor throws (line 1342) unless validGpuListFormat
\* accepts the filter
InitFilter ==
    /\ m_iterations = 1
    /\ m_jsonOutput \in BOOLEAN
    /\ m_drd \in {[gpuList |-> f, totalIterations |-> 0, currentIteration |-> 0] :
                     f \in {x \in FilterStrings : validGpuListFormat(x)}}
    /\ g_signalExit = FALSE
    /\ diag_stopDiagOnSignal = FALSE
    /\ pc = "idle"
    /\ rde = NoRde
    /\ diagResult = ZeroResponse
    /\ gpuVec = <<>>
    /\ result = DCGM_ST_OK
    /\ i = 0
    /\ ret = DCGM_ST_OK
    /\ overallRet = DCGM_ST_OK
    /\ hist = InitHist
    /\ InitSigHandlers
    /\ InitIter
    /\ InitStartIdle
    /\ resp \in FilterResponses
    /\ op = {}
    /\ retval = "none"
    /\ textReport = <<>>
    /\ jsonDoc = <<>>
    /\ toOutput = <<>>
    /\ sanitized = <<>>
    /\ InitWrapIdle

\* RunDiagOnce, lines 417-428
Filter_GpuList ==
    /\ op = {}
    /\ gpuVec' = DeriveGpuVec(ParseGpuList(m_drd.gpuList), resp)
    /\ op' = {"gpus"}
    /\ UNCHANGED <<m_iterations, m_jsonOutput, m_drd, g_signalExit, diag_stopDiagOnSignal,
                   pc, rde, diagResult, result, i, ret, overallRet, hist>>
    /\ UNCHANGED sigVars
    /\ UNCHANGED iterVars
    /\ UNCHANGED startVars
    /\ UNCHANGED <<resp, retval, textReport, jsonDoc, toOutput, sanitized>>
    /\ UNCHANGED wrapVars

\* RunDiagOnce, lines 430-452: the loops of lines 842-862 and 1204-1209 read
\* diagResults[gpuVec[k]]; a read past the slots finds anything, or faults
Filter_Render ==
    /\ op = {"gpus"}
    /\ LET past == {gpuVec[k] : k \in 1 .. Len(gpuVec)} \ Devices
       IN  \/ \E beyond \in [past -> BeyondSlots] :
                LET seen == ReadSlots(resp.perGpuResponses, gpuVec, beyond)
                IN  IF m_jsonOutput
                    THEN /\ jsonDoc' = [t \in Tests |->
                               JsonTestEntry([resp EXCEPT !.perGpuResponses = seen],
                                             gpuVec, t)]
                         /\ op' = {"gpus", "json"}
                         /\ UNCHANGED <<textReport, retval>>
                    ELSE /\ textReport' = IF Len(gpuVec) > 0
                                          THEN [t \in Tests |->
                                                  HelperDisplayGpuResults(t, seen, gpuVec)]
                                          ELSE <<>>
                         /\ op' = {"gpus", "text"}
                         /\ UNCHANGED <<jsonDoc, retval>>
           \/ /\ past # {}
              /\ retval' = "SIGSEGV"
              /\ op' = {"gpus", "fault"}
              /\ UNCHANGED <<textReport, jsonDoc>>
    /\ UNCHANGED <<resp, toOutput, sanitized>>
    /\ UNCHANGED wrapVars
    /\ UNCHANGED ctlVars

NextFilter ==
    \/ Filter_GpuList
    \/ Filter_Render

SpecFilter == InitFilter /\ [][NextFilter]_vars

(***************************************************************************)
(* The StartDiag command: its constructor and the two handlers a command   *)
(* is finished by, DoExecuteConnected (the host engine was reached) and    *)
(* DoExecuteConnectionFailure (it was not).  Diag::RunStartDiag is the     *)
(* program of Spec; here it is the call that returns one of its codes.     *)
(***************************************************************************)
Hostnames == {"localhost", "node1:5555"}
ExecutablePaths == {"dcgmi", "/usr/bin/dcgmi"}

\* what RunStartDiag can return
RunStartDiagReturns == RemoteReturns \cup {DCGM_ST_NVVS_ISOLATE_ERROR, DCGM_ST_NVVS_KILLED}

\* what the failed connection attempt and dcgmStartEmbedded_v2 can report
ConnectionFailures == {"DCGM_ST_CONNECTION_NOT_VALID", DCGM_ST_GENERIC_ERROR}

\* the arguments of the constructor; nothing has run yet
InitStart ==
    /\ m_iterations = 1
    /\ m_jsonOutput = FALSE
    /\ m_drd = [gpuList |-> <<>>, totalIterations |-> 0, currentIteration |-> 0]
    /\ g_signalExit = FALSE
    /\ diag_stopDiagOnSignal = FALSE
    /\ pc = "idle"
    /\ rde = NoRde
    /\ diagResult = ZeroResponse
    /\ gpuVec = <<>>
    /\ result = DCGM_ST_OK
    /\ i = 0
    /\ ret = DCGM_ST_OK
    /\ overallRet = DCGM_ST_OK
    /\ hist = InitHist
    /\ InitSigHandlers
    /\ InitIter
    /\ InitPure
    /\ diag_hostname = ""
    /\ diag_pathToExecutable = ""
    /\ startDiag \in {[at |-> "new", hostname |-> h, hostAddressWasOverridden |-> o,
                       pathToDcgmExecutable |-> x, m_hostName |-> "", m_silent |-> FALSE,
                       connectionStatus |-> DCGM_ST_OK, ret |-> DCGM_ST_OK] :
                         h \in Hostnames, o \in BOOLEAN, x \in ExecutablePaths}

\* StartDiag::StartDiag, lines 1275-1353; a malformed parameter string, an
\* unreadable configuration file or a malformed GPU list throws before line 1352
StartDiag_StartDiag ==
    /\ startDiag.at = "new"
    /\ \E wellFormed \in BOOLEAN :
          IF wellFormed
          THEN /\ startDiag' = [startDiag EXCEPT
                                   !.m_hostName = startDiag.hostname,
                                   !.m_silent = ~startDiag.hostAddressWasOverridden,
                                   !.at = "constructed"]
               /\ diag_pathToExecutable' = startDiag.pathToDcgmExecutable
          ELSE /\ startDiag' = [startDiag EXCEPT
                                   !.m_hostName = startDiag.hostname,
                                   !.m_silent = ~startDiag.hostAddressWasOverridden,
                                   !.at = "thrown"]
               /\ UNCHANGED diag_pathToExecutable
    /\ UNCHANGED diag_hostname
    /\ UNCHANGED <<progVars, hist>>
    /\ UNCHANGED sigVars
    /\ UNCHANGED iterVars
    /\ UNCHANGED pureVars

\* StartDiag::DoExecuteConnected, lines 1398-1401
DoExecuteConnected_Enter ==
    /\ startDiag.at = "constructed"
    /\ startDiag' = [startDiag EXCEPT !.m_silent = TRUE, !.at = "connected_run"]
    /\ diag_hostname' = startDiag.m_hostName
    /\ UNCHANGED diag_pathToExecutable
    /\ UNCHANGED <<progVars, hist>>
    /\ UNCHANGED sigVars
    /\ UNCHANGED iterVars
    /\ UNCHANGED pureVars

\* line 1403: dcgmReturn_t ret = m_diagObj.RunStartDiag(m_dcgmHandle)
DoExecuteConnected_RunStartDiag ==
    /\ startDiag.at = "connected_run"
    /\ \E r \in RunStartDiagReturns :
          startDiag' = [startDiag EXCEPT !.ret = r, !.at = "connected_reset"]
    /\ UNCHANGED <<diag_hostname, diag_pathToExecutable>>
    /\ UNCHANGED <<progVars, hist>>
    /\ UNCHANGED sigVars
    /\ UNCHANGED iterVars
    /\ UNCHANGED pureVars

\* lines 1406-1408: diag_hostname = ""; return ret
DoExecuteConnected_Return ==
    /\ startDiag.at = "connected_reset"
    /\ diag_hostname' = ""
    /\ startDiag' = [startDiag EXCEPT !.at = "done"]
    /\ UNCHANGED diag_pathToExecutable
    /\ UNCHANGED <<progVars, hist>>
    /\ UNCHANGED sigVars
    /\ UNCHANGED iterVars
    /\ UNCHANGED pureVars

\* StartDiag::DoExecuteConnectionFailure, lines 1413-1416
DoExecuteConnectionFailure_Enter ==
    /\ startDiag.at = "constructed"
    /\ \E c \in ConnectionFailures :
          startDiag' = [startDiag EXCEPT !.m_silent = TRUE, !.connectionStatus = c,
                                         !.at = "embedded_start"]
    /\ diag_hostname' = startDiag.m_hostName
    /\ UNCHANGED diag_pathToExecutable
    /\ UNCHANGED <<progVars, hist>>
    /\ UNCHANGED sigVars
    /\ UNCHANGED iterVars
    /\ UNCHANGED pureVars

\* lines 1419-1431: connectionStatus = dcgmStartEmbedded_v2(&params)
DoExecuteConnectionFailure_StartEmbedded ==
    /\ startDiag.at = "embedded_start"
    /\ \E c \in {DCGM_ST_OK} \cup ConnectionFailures :
          startDiag' = [startDiag EXCEPT
                           !.connectionStatus = c,
                           !.at = IF c # DCGM_ST_OK THEN "failure_reset" ELSE "embedded_run"]
    /\ UNCHANGED <<diag_hostname, diag_pathToExecutable>>
    /\ UNCHANGED <<progVars, hist>>
    /\ UNCHANGED sigVars
    /\ UNCHANGED iterVars
    /\ UNCHANGED pureVars

\* lines 1434-1436: connectionStatus = m_diagObj.RunStartDiag(..); dcgmStopEmbedded
DoExecuteConnectionFailure_RunStartDiag ==
    /\ startDiag.at = "embedded_run"
    /\ \E r \in RunStartDiagReturns :
          startDiag' = [startDiag EXCEPT !.connectionStatus = r, !.at = "failure_reset"]
    /\ UNCHANGED <<diag_hostname, diag_pathToExecutable>>
    /\ UNCHANGED <<progVars, hist>>
    /\ UNCHANGED sigVars
    /\ UNCHANGED iterVars
    /\ UNCHANGED pureVars

\* lines 1440-1442: diag_hostname = ""; return connectionStatus
DoExecuteConnectionFailure_Return ==
    /\ startDiag.at = "failure_reset"
    /\ diag_hostname' = ""
    /\ startDiag' = [startDiag EXCEPT !.ret = startDiag.connectionStatus, !.at = "done"]
    /\ UNCHANGED diag_pathToExecutable
    /\ UNCHANGED <<progVars, hist>>
    /\ UNCHANGED sigVars
    /\ UNCHANGED iterVars
    /\ UNCHANGED pureVars

NextStart ==
    \/ StartDiag_StartDiag
    \/ DoExecuteConnected_Enter
    \/ DoExecuteConnected_RunStartDiag
    \/ DoExecuteConnected_Return
    \/ DoExecuteConnectionFailure_Enter
    \/ DoExecuteConnectionFailure_StartEmbedded
    \/ DoExecuteConnectionFailure_RunStartDiag
    \/ DoExecuteConnectionFailure_Return

SpecStart == InitStart /\ [][NextStart]_vars

(***************************************************************************)
(* Diag::Sanitize.  A string is a sequence of characters; positions in the *)
(* code are 0-based, Seq positions 1-based.                                *)
(***************************************************************************)
Chars == {"*", " ", "\n", "a"}

\* Diag::isWhitespace
isWhitespace(c) == c \in {" ", "\n", "\t", "\r", "\f"}

npos == -1

RECURSIVE FindFrom(_, _)
\* std::string::find("***"), scanning from position p upwards
FindFrom(s, p) ==
    IF p + 3 > Len(s) THEN npos
    ELSE IF s[p + 1] = "*" /\ s[p + 2] = "*" /\ s[p + 3] = "*" THEN p
    ELSE FindFrom(s, p + 1)

\* std::string::substr(pos)
substr(s, pos) == SubSeq(s, pos + 1, Len(s))

RECURSIVE EraseTrailing(_)
\* the first while loop, lines 738-741
EraseTrailing(s) ==
    IF Len(s) > 0 /\ isWhitespace(s[Len(s)])
    THEN EraseTrailing(SubSeq(s, 1, Len(s) - 1))
    ELSE s

RECURSIVE SkipLeading(_, _)
\* the second while loop, lines 743-747; at(pos) past the end would throw
SkipLeading(s, pos) ==
    IF Len(s) > 0
    THEN IF pos >= Len(s) THEN npos
         ELSE IF isWhitespace(s[pos + 1]) THEN SkipLeading(s, pos + 1) ELSE pos
    ELSE pos

Sanitize(str) ==
    LET pos   == FindFrom(str, 0)
        cut   == IF pos # npos THEN substr(str, pos + 3) ELSE str
        trail == EraseTrailing(cut)
        lead  == SkipLeading(trail, 0)
    IN  IF lead = npos THEN <<"std::out_of_range">> ELSE substr(trail, lead)

RECURSIVE StringsUpTo(_)
StringsUpTo(n) ==
    IF n = 0 THEN {<<>>}
    ELSE LET shorter == StringsUpTo(n - 1)
         IN  shorter \cup {Append(w, c) : w \in {v \in shorter : Len(v) = n - 1}, c \in Chars}

InitSanitize ==
    /\ InitIdle({<<>>})
    /\ resp = ZeroResponse
    /\ op = {}
    /\ retval = "none"
    /\ textReport = <<>>
    /\ jsonDoc = <<>>
    /\ toOutput \in StringsUpTo(MaxLen)
    /\ sanitized = <<>>
    /\ InitWrapIdle

\* Sanitize(toOutput)
Sanitize_Once ==
    /\ Len(sanitized) = 0
    /\ sanitized' = <<Sanitize(toOutput)>>
    /\ UNCHANGED <<resp, op, retval, textReport, jsonDoc, toOutput>>
    /\ UNCHANGED wrapVars
    /\ UNCHANGED ctlVars

\* Sanitize(Sanitize(toOutput))
Sanitize_Again ==
    /\ Len(sanitized) = 1
    /\ sanitized' = Append(sanitized, Sanitize(sanitized[1]))
    /\ UNCHANGED <<resp, op, retval, textReport, jsonDoc, toOutput>>
    /\ UNCHANGED wrapVars
    /\ UNCHANGED ctlVars

NextSanitize ==
    \/ Sanitize_Once
    \/ Sanitize_Again

SpecSanitize == InitSanitize /\ [][NextSanitize]_vars

(***************************************************************************)
(* DisplayVerboseInfo.  A message is a sequence of characters; the         *)
(* messages tried have pairwise different characters (the k-th character   *)
(* is k), so that a lost, repeated or misplaced character shows.           *)
(***************************************************************************)
\* #define DATA_INFO_TAG_LEN 45
DATA_INFO_TAG_LEN == 45

\* std::string::substr(pos, len): at most len characters from offset pos
substrLen(s, pos, len) ==
    SubSeq(s, pos + 1, IF pos + len < Len(s) THEN pos + len ELSE Len(s))

\* one row of the command view: the two display parameters, then display()
DisplayRow(dataName, dataInfo) == [DATA_NAME |-> dataName, DATA_INFO |-> dataInfo]

\* the for loop of lines 756-769, from offset pos on
RECURSIVE DisplayLoop(_, _, _, _)
DisplayLoop(nm, inf, pos, shown) ==
    IF pos < Len(inf)
    THEN DisplayLoop(nm, inf, pos + DATA_INFO_TAG_LEN,
                     Append(shown,
                            DisplayRow(IF pos = 0 THEN nm ELSE "",
                                       substrLen(inf, pos, DATA_INFO_TAG_LEN))))
    ELSE shown

\* a mutant of DisplayVerboseInfo: one row, the message cut at the width
DisplayVerboseInfo_Truncates(nm, inf) ==
    IF Len(inf) > 0
    THEN <<DisplayRow(nm, substrLen(inf, 0, DATA_INFO_TAG_LEN))>>
    ELSE <<>>

\* DisplayVerboseInfo, lines 753-770: the rows it displays, in order
DisplayVerboseInfo(nm, inf) == DisplayLoop(nm, inf, 0, <<>>)

\* the labels and the messages tried
Names == {"", "Info", "Warning"}
Messages == {[k \in 1 .. n |-> k] : n \in 0 .. MaxInfoLen}

InitWrap ==
    /\ InitIdle({<<>>})
    /\ resp = ZeroResponse
    /\ op = {}
    /\ retval = "none"
    /\ textReport = <<>>
    /\ jsonDoc = <<>>
    /\ toOutput = <<>>
    /\ sanitized = <<>>
    /\ name \in Names
    /\ info \in Messages
    /\ cmdView = <<>>

\* DisplayVerboseInfo(cmdView, name, info)
Wrap ==
    /\ "DisplayVerboseInfo" \notin op
    /\ cmdView' = DisplayVerboseInfo(name, info)
    /\ op' = op \cup {"DisplayVerboseInfo"}
    /\ UNCHANGED <<resp, retval, textReport, jsonDoc, toOutput, sanitized, name, info>>
    /\ UNCHANGED ctlVars

NextWrap == Wrap

SpecWrap == InitWrap /\ [][NextWrap]_vars

(***************************************************************************)
(* The detail rows of one test in the text report: HelperDisplayDetails,   *)
(* as HelperDisplayGpuResults calls it.  The cells of these responses      *)
(* carry their messages: error[j].msg and info, "" when there is none.     *)
(***************************************************************************)
DCGM_RUN_FLAGS_VERBOSE == "DCGM_RUN_FLAGS_VERBOSE"

RECURSIVE WarningsOfGpu(_, _, _)
\* lines 792-799: the rows of the messages of error[j .. DCGM_MAX_ERRORS-1]
WarningsOfGpu(cell, j, shown) ==
    IF j >= DCGM_MAX_ERRORS
    THEN shown
    ELSE WarningsOfGpu(cell, j + 1,
            IF cell.error[j].msg # <<>>
            THEN shown \o DisplayVerboseInfo("Warning", Sanitize(cell.error[j].msg))
            ELSE shown)

RECURSIVE WarningsLoop(_, _, _, _, _)
\* lines 789-800
WarningsLoop(gpuIndices, testIndex, diagResults, k, shown) ==
    IF k > Len(gpuIndices)
    THEN shown
    ELSE WarningsLoop(gpuIndices, testIndex, diagResults, k + 1,
            shown \o WarningsOfGpu(diagResults[gpuIndices[k]].results[testIndex], 0, <<>>))

RECURSIVE InfoLoop(_, _, _, _, _)
\* lines 805-812
InfoLoop(gpuIndices, testIndex, diagResults, k, shown) ==
    IF k > Len(gpuIndices)
    THEN shown
    ELSE InfoLoop(gpuIndices, testIndex, diagResults, k + 1,
            IF diagResults[gpuIndices[k]].results[testIndex].info # <<>>
            THEN shown \o DisplayVerboseInfo("Info",
                              Sanitize(diagResults[gpuIndices[k]].results[testIndex].info))
            ELSE shown)

\* Diag::HelperDisplayDetails: the rows it adds, in order
HelperDisplayDetails(forceVerbose, gpuIndices, testIndex, drd, diagResults) ==
    LET verbose         == DCGM_RUN_FLAGS_VERBOSE \in drd.flags
        displayInfo     == forceVerbose \/ verbose
        displayWarnings == forceVerbose \/ verbose
    IN  (IF displayWarnings
         THEN WarningsLoop(gpuIndices, testIndex, diagResults, 1, <<>>) ELSE <<>>)
        \o (IF displayInfo
            THEN InfoLoop(gpuIndices, testIndex, diagResults, 1, <<>>) ELSE <<>>)

\* HelperDisplayGpuResults, lines 864-968: the first argument of its call of
\* HelperDisplayDetails, from the four lists b
showWarnings(b, numGpus) ==
    IF Len(b.passed) = numGpus THEN FALSE
    ELSE IF Len(b.skipped) = numGpus THEN TRUE
    ELSE IF Len(b.failed) = numGpus THEN TRUE
    ELSE IF Len(b.warned) = numGpus THEN TRUE
    ELSE Len(b.failed) > 0 \/ Len(b.warned) > 0 \/ Len(b.skipped) > 0

\* HelperDisplayGpuResults: the detail rows under the summary rows of a test
DetailRows(drd, testIndex, diagResults, gpuIndices) ==
    LET ti == IF testIndex = DCGM_CONTEXT_CREATE_INDEX THEN 0 ELSE testIndex
        b  == HelperDisplayGpuResults(testIndex, diagResults, gpuIndices)
    IN  HelperDisplayDetails(showWarnings(b, Len(gpuIndices)), gpuIndices, ti, drd,
                             diagResults)

\* ---- SpecDetails ----
GpuLabels == <<"gpu0", "gpu1", "gpu2", "gpu3">>
ErrLabels == <<"e0", "e1", "e2", "e3">>

\* a cell with its messages: none, or one in the last error entry, and an
\* informational note or none; a message names its GPU
DetailCells(g) ==
    {[status |-> st,
      error  |-> [j \in ErrIdx |->
                    [msg |-> IF w /\ j = DCGM_MAX_ERRORS - 1
                             THEN <<GpuLabels[g + 1], ErrLabels[j + 1]>> ELSE <<>>]],
      info   |-> IF n THEN <<" ", GpuLabels[g + 1], "note", "\n">> ELSE <<>>] :
        st \in Statuses, w \in BOOLEAN, n \in BOOLEAN}

\* every slot populated; the cell of test 0 of every GPU any of DetailCells
DetailResponses(devs) ==
    {[BaseResponse(devs, Cardinality(devs), MaxLevelOne) EXCEPT
         !.perGpuResponses = [g \in devs |->
             [gpuId   |-> g,
              results |-> [t \in Tests |->
                             IF t = 0 THEN c[g]
                             ELSE [status |-> DCGM_DIAG_RESULT_NOT_RUN,
                                   error  |-> [j \in ErrIdx |-> [msg |-> <<>>]],
                                   info   |-> <<>>]]]]] :
        c \in [devs -> UNION {DetailCells(g) : g \in devs}]}

DetailFilters == {<<0>>, <<DCGM_MAX_NUM_DEVICES - 1, 0>>} \cup {[k \in 1 .. DCGM_MAX_NUM_DEVICES |-> k - 1]}

InitDetails ==
    /\ m_iterations = 1
    /\ m_jsonOutput = FALSE
    /\ m_drd \in {[gpuList |-> f, totalIterations |-> 0, currentIteration |-> 0,
                   flags |-> fl] :
                     f \in DetailFilters, fl \in {{}, {DCGM_RUN_FLAGS_VERBOSE}}}
    /\ g_signalExit = FALSE
    /\ diag_stopDiagOnSignal = FALSE
    /\ pc = "idle"
    /\ rde = NoRde
    /\ diagResult = ZeroResponse
    /\ gpuVec = m_drd.gpuList
    /\ result = DCGM_ST_OK
    /\ i = 0
    /\ ret = DCGM_ST_OK
    /\ overallRet = DCGM_ST_OK
    /\ hist = InitHist
    /\ InitSigHandlers
    /\ InitIter
    /\ InitStartIdle
    /\ resp \in {r \in DetailResponses(Devices) :
                    \A g \in Devices : r.perGpuResponses[g].results[0] \in DetailCells(g)}
    /\ op = {}
    /\ retval = "none"
    /\ textReport = <<>>
    /\ jsonDoc = <<>>
    /\ toOutput = <<>>
    /\ sanitized = <<>>
    /\ InitWrapIdle

\* HelperDisplayGpuResults(dataName, 0, diagResult.perGpuResponses, gpuVec)
Details ==
    /\ op = {}
    /\ textReport' = <<HelperDisplayGpuResults(0, resp.perGpuResponses, gpuVec)>>
    /\ cmdView' = DetailRows(m_drd, 0, resp.perGpuResponses, gpuVec)
    /\ op' = {"HelperDisplayGpuResults"}
    /\ UNCHANGED <<resp, retval, jsonDoc, toOutput, sanitized, name, info>>
    /\ UNCHANGED ctlVars

NextDetails == Details

SpecDetails == InitDetails /\ [][NextDetails]_vars

(***************************************************************************)
(* What the claims speak of, stated without the code's loops.              *)
(***************************************************************************)
\* the cells GetFailureResult is meant to look at, with status fail
FailingCells(d) ==
    {d.levelOneResults[l] : l \in {k \in L1Idx : k < d.levelOneTestCount
                                     /\ d.levelOneResults[k].status = DCGM_DIAG_RESULT_FAIL}}
    \cup {d.perGpuResponses[a[1]].results[a[2]] :
            a \in {b \in Devices \X Tests :
                     d.perGpuResponses[b[1]].results[b[2]].status = DCGM_DIAG_RESULT_FAIL}}

IsIsolateCell(c) ==
    \E j \in ErrIdx : dcgmErrorGetPriorityByCode(c.error[j]) = DCGM_ERROR_ISOLATE

HasIsolateFail(d) == \E c \in FailingCells(d) : IsIsolateCell(c)

Range(seq) == {seq[k] : k \in 1 .. Len(seq)}

RECURSIVE SeqSum(_)
SeqSum(seq) == IF seq = <<>> THEN 0 ELSE Head(seq) + SeqSum(Tail(seq))

\* how often id occurs in seq
Count(seq, id) == Cardinality({k \in 1 .. Len(seq) : seq[k] = id})

(***************************************************************************)
(* C1 (Spec), as claimed: whenever a signal was delivered while the call   *)
(* was armed, ExecuteDiagOnServer returns DCGM_ST_NVVS_KILLED and has made *)
(* exactly one abort call.                                                 *)
(***************************************************************************)
C1_KilledWheneverSignalledArmed ==
    (pc = "exec_return" /\ hist.sigArmed)
        => (result = DCGM_ST_NVVS_KILLED /\ hist.aborts = 1)

(***************************************************************************)
(* C1 (Spec), amended: a signal delivered while the call is armed and      *)
(* before the poll that leaves the loop makes the call return              *)
(* DCGM_ST_NVVS_KILLED after exactly one abort call, whatever the dispatch *)
(* has done and however many signals arrive.                               *)
(***************************************************************************)
C1_KilledWhenSignalledBeforeLastPoll ==
    (pc = "exec_return" /\ hist.sigBeforeExit)
        => (result = DCGM_ST_NVVS_KILLED /\ hist.aborts = 1)

\* a killed call that saw two signals while its dispatch had already completed
C1_Witness ==
    /\ pc = "exec_disarm"
    /\ hist.sigBeforeExit
    /\ hist.signals = 2
    /\ hist.unarmed = 0
    /\ rde.state = "stopped"
    /\ rde.m_result = DCGM_ST_OK
    /\ result = DCGM_ST_NVVS_KILLED
    /\ hist.aborts = 1

(***************************************************************************)
(* C2 (Spec): a signal step changes nothing of the program but             *)
(* g_signalExit, and does not change g_signalExit when no run is armed; so *)
(* a behaviour whose signals all came unarmed never has the flag set and   *)
(* never has a killed run.                                                 *)
(***************************************************************************)
C2_UnarmedSignalChangesNothing ==
    /\ [][(hist'.signals # hist.signals) =>
            /\ UNCHANGED <<m_iterations, m_jsonOutput, m_drd, diag_stopDiagOnSignal, pc,
                           rde, diagResult, gpuVec, result, i, ret, overallRet>>
            /\ (~diag_stopDiagOnSignal => g_signalExit' = g_signalExit)]_vars
    /\ []((hist.signals = hist.unarmed)
            => (~g_signalExit /\ DCGM_ST_NVVS_KILLED \notin Range(hist.rets)))

\* signals came, all of them unarmed, and the runs ended as they would have
C2_Witness ==
    /\ pc = "returned"
    /\ hist.unarmed = 2
    /\ ~g_signalExit
    /\ m_iterations = 2
    /\ hist.rets = <<DCGM_ST_OK, DCGM_ST_OK>>
    /\ overallRet = DCGM_ST_OK

(***************************************************************************)
(* C3 (Spec): with N > 1 iterations RunStartDiag runs RunDiagOnce until    *)
(* the first outcome that is not OK and returns that outcome; with no such *)
(* outcome it runs exactly N times and returns OK.                         *)
(***************************************************************************)
C3_StopsAtFirstFailure ==
    (pc = "returned" /\ m_iterations > 1) =>
        LET n == Len(hist.rets)
        IN  IF \E k \in 1 .. n : hist.rets[k] # DCGM_ST_OK
            THEN /\ \A k \in 1 .. (n - 1) : hist.rets[k] = DCGM_ST_OK
                 /\ hist.rets[n] # DCGM_ST_OK
                 /\ overallRet = hist.rets[n]
            ELSE /\ n = m_iterations
                 /\ overallRet = DCGM_ST_OK

\* three iterations asked for, the second one failed, two were run
C3_Witness ==
    /\ pc = "returned"
    /\ m_iterations = 3
    /\ Len(hist.rets) = 2
    /\ hist.rets[1] = DCGM_ST_OK
    /\ hist.rets[2] = DCGM_ST_NVVS_ERROR
    /\ overallRet = DCGM_ST_NVVS_ERROR

(***************************************************************************)
(* C4 (SpecClassify): when some failing cell, level-one or per-GPU, has an *)
(* error of the isolate tier, GetFailureResult returns                     *)
(* DCGM_ST_NVVS_ISOLATE_ERROR, wherever the cell lies and whatever other   *)
(* failures there are.                                                     *)
(***************************************************************************)
C4_IsolateWins ==
    ("GetFailureResult" \in op /\ HasIsolateFail(resp))
        => retval = DCGM_ST_NVVS_ISOLATE_ERROR

\* an ordinary failure in the first cell scanned, the isolate-tier error in the
\* last entry of the last cell scanned
C4_Witness ==
    /\ "GetFailureResult" \in op
    /\ resp.levelOneTestCount > 0
    /\ resp.levelOneResults[0].status = DCGM_DIAG_RESULT_FAIL
    /\ ~IsIsolateCell(resp.levelOneResults[0])
    /\ LET c == resp.perGpuResponses[DCGM_MAX_NUM_DEVICES - 1].results[DCGM_PER_GPU_TEST_COUNT_V8 - 1]
       IN  /\ c.status = DCGM_DIAG_RESULT_FAIL
           /\ c.error[DCGM_MAX_ERRORS - 1] = "FR_ISOLATE"
           /\ c.error[0] = "FR_MONITOR"
    /\ retval = DCGM_ST_NVVS_ISOLATE_ERROR

(***************************************************************************)
(* C5 (Spec): when the transport call returned OK and the report was       *)
(* rendered, and no failing cell has an isolate-tier error, RunDiagOnce    *)
(* returns DCGM_ST_NVVS_ERROR if some cell has status fail and DCGM_ST_OK  *)
(* if none has; warn, skip and not-run cells do not count.                 *)
(***************************************************************************)
C5_ErrorIffSomeCellFails ==
    (pc = "once_return" /\ hist.transport = DCGM_ST_OK /\ hist.rendered
        /\ ~HasIsolateFail(diagResult))
        => result = IF FailingCells(diagResult) # {}
                    THEN DCGM_ST_NVVS_ERROR ELSE DCGM_ST_OK

\* a rendered run whose only blemish is a warning with an isolate-tier error: OK
C5_Witness ==
    /\ pc = "once_return"
    /\ hist.transport = DCGM_ST_OK
    /\ hist.rendered
    /\ \E g \in Devices, t \in Tests :
          /\ diagResult.perGpuResponses[g].results[t].status = DCGM_DIAG_RESULT_WARN
          /\ IsIsolateCell(diagResult.perGpuResponses[g].results[t])
    /\ FailingCells(diagResult) = {}
    /\ result = DCGM_ST_OK

(***************************************************************************)
(* The report of one test, read back from the two documents.               *)
(***************************************************************************)
NoDuplicates(seq) == \A k, m \in 1 .. Len(seq) : seq[k] = seq[m] => k = m

\* the status of the GPU at position k of the list, for test t
StatusAt(d, list, k, t) == d.perGpuResponses[list[k]].results[t].status

\* the gpuId fields of the listed slots whose status for test t is st, in list order
IdsWithStatus(d, list, t, st) ==
    LET at  == SelectSeq([k \in 1 .. Len(list) |-> k],
                         LAMBDA k : StatusAt(d, list, k, t) = st)
    IN  [m \in 1 .. Len(at) |-> d.perGpuResponses[list[at[m]]].gpuId]

\* the gpu ids the structured document gives status st for test t
JsonIdsWithStatus(doc, t, st) ==
    {e.gpu_id : e \in {x \in Range(doc[t].results) : x # JsonNull /\ x.status = st}}

\* the slots in ascending order
DeviceSeq == [k \in 1 .. DCGM_MAX_NUM_DEVICES |-> k - 1]

Overwritten(d) == {g \in Devices : d.perGpuResponses[g].gpuId # DCGM_MAX_NUM_DEVICES}

(***************************************************************************)
(* C6 (SpecRender), as claimed: for every test the four buckets partition  *)
(* the GPU set: every GPU of the set is in exactly one bucket under its    *)
(* own id and the sizes add up to the size of the set.                     *)
(***************************************************************************)
C6_BucketsPartitionTheSet ==
    ("text" \in op /\ Len(gpuVec) > 0 /\ NoDuplicates(gpuVec)) =>
        \A t \in Tests :
            LET b == textReport[t]
            IN  /\ Len(b.passed) + Len(b.failed) + Len(b.warned) + Len(b.skipped)
                      = Len(gpuVec)
                /\ \A g \in Range(gpuVec) :
                      Count(b.passed, g) + Count(b.failed, g)
                        + Count(b.warned, g) + Count(b.skipped, g) = 1

(***************************************************************************)
(* C6 (SpecRender), amended: for every test each bucket holds, in list     *)
(* order and once per listed GPU, the gpuId field of exactly the listed    *)
(* GPUs whose status is that of the bucket; a GPU whose status is not-run  *)
(* is in no bucket, so the sizes add up to the number of listed GPUs whose *)
(* status is not not-run.                                                  *)
(***************************************************************************)
C6_BucketsPartitionTheGpusThatRan ==
    ("text" \in op /\ Len(gpuVec) > 0) =>
        \A t \in Tests :
            LET b  == textReport[t]
                rs == resp.perGpuResponses
            IN  /\ b.passed  = IdsWithStatus(resp, gpuVec, t, DCGM_DIAG_RESULT_PASS)
                /\ b.failed  = IdsWithStatus(resp, gpuVec, t, DCGM_DIAG_RESULT_FAIL)
                /\ b.warned  = IdsWithStatus(resp, gpuVec, t, DCGM_DIAG_RESULT_WARN)
                /\ b.skipped = IdsWithStatus(resp, gpuVec, t, DCGM_DIAG_RESULT_SKIP)
                /\ Len(b.passed) + Len(b.failed) + Len(b.warned) + Len(b.skipped)
                      = Cardinality({k \in 1 .. Len(gpuVec) :
                            StatusAt(resp, gpuVec, k, t) # DCGM_DIAG_RESULT_NOT_RUN})

\* a set of two GPUs, one warned and one did not run: one bucket entry
C6_Witness ==
    /\ "text" \in op
    /\ m_drd.gpuList = <<>>
    /\ Len(gpuVec) = 2
    /\ \E t \in Tests :
          /\ StatusAt(resp, gpuVec, 1, t) = DCGM_DIAG_RESULT_WARN
          /\ StatusAt(resp, gpuVec, 2, t) = DCGM_DIAG_RESULT_NOT_RUN
          /\ textReport[t].warned = <<gpuVec[1]>>
          /\ textReport[t].passed = <<>>
          /\ textReport[t].failed = <<>>
          /\ textReport[t].skipped = <<>>

(***************************************************************************)
(* C7 (SpecRender), as claimed: with no filter PopulateGpuList selects     *)
(* exactly the slots whose sentinel id was overwritten, and at most        *)
(* gpuCount of them.  Stated for the responses in which exactly gpuCount   *)
(* slots are overwritten, where the two halves of the claim can both hold. *)
(***************************************************************************)
C7_SelectsTheOverwrittenSlots ==
    ("gpus" \in op /\ m_drd.gpuList = <<>>
        /\ resp.gpuCount = Cardinality(Overwritten(resp))) =>
        /\ Range(gpuVec) = Overwritten(resp)
        /\ Len(gpuVec) <= resp.gpuCount

(***************************************************************************)
(* C7 (SpecRender), amended: with no filter PopulateGpuList selects, in    *)
(* ascending order, the slots whose sentinel id was overwritten and in     *)
(* which some test has a status other than not-run, and stops when it has  *)
(* gpuCount of them; so it selects at most gpuCount slots, all of them     *)
(* overwritten.                                                            *)
(***************************************************************************)
C7_SelectsTheFirstSlotsThatRan ==
    ("gpus" \in op /\ m_drd.gpuList = <<>>) =>
        LET ran == SelectSeq(DeviceSeq,
                             LAMBDA g : g \in Overwritten(resp)
                                        /\ someTestRan(resp.perGpuResponses[g]))
            n   == IF Len(ran) < resp.gpuCount THEN Len(ran) ELSE resp.gpuCount
        IN  /\ gpuVec = SubSeq(ran, 1, n)
            /\ Len(gpuVec) <= resp.gpuCount
            /\ Range(gpuVec) \subseteq Overwritten(resp)

\* two slots overwritten and gpuCount two, but only the second ran a test
C7_Witness ==
    /\ "gpus" \in op
    /\ m_drd.gpuList = <<>>
    /\ resp.gpuCount = 2
    /\ Overwritten(resp) = {0, 1}
    /\ ~someTestRan(resp.perGpuResponses[0])
    /\ gpuVec = <<1>>

(***************************************************************************)
(* C8 (SpecRender): for the same response and GPU set the text report and  *)
(* the structured document name the same GPUs as passed and the same GPUs  *)
(* as failed, for every test.                                              *)
(***************************************************************************)
C8_TextAndJsonAgree ==
    ({"text", "json"} \subseteq op /\ Len(gpuVec) > 0) =>
        \A t \in Tests :
            /\ Range(textReport[t].passed) = JsonIdsWithStatus(jsonDoc, t, "Pass")
            /\ Range(textReport[t].failed) = JsonIdsWithStatus(jsonDoc, t, "Fail")

(***************************************************************************)
(* C9 (SpecSanitize): Sanitize(Sanitize(s)) = Sanitize(s) for every s.     *)
(***************************************************************************)
C9_SanitizeIdempotent ==
    (Len(sanitized) = 2) => sanitized[2] = sanitized[1]

(***************************************************************************)
(* C10 (SpecSanitize): Sanitize(s) is what follows the last "***" of s     *)
(* (all of s when there is none) without its leading and trailing          *)
(* whitespace.                                                             *)
(***************************************************************************)
IsDelimiterAt(s, p) == p + 2 <= Len(s) /\ s[p] = "*" /\ s[p + 1] = "*" /\ s[p + 2] = "*"

AfterLastDelimiter(s) ==
    LET at == {p \in 1 .. Len(s) : IsDelimiterAt(s, p)}
    IN  IF at = {} THEN s
        ELSE SubSeq(s, (CHOOSE p \in at : \A q \in at : q <= p) + 3, Len(s))

Trimmed(s) ==
    LET keep == {p \in 1 .. Len(s) : ~isWhitespace(s[p])}
    IN  IF keep = {} THEN <<>>
        ELSE SubSeq(s, CHOOSE p \in keep : \A q \in keep : p <= q,
                       CHOOSE p \in keep : \A q \in keep : q <= p)

C10_SanitizeCutsAfterLastDelimiter ==
    (Len(sanitized) >= 1) => sanitized[1] = Trimmed(AfterLastDelimiter(toOutput))

(***************************************************************************)
(* C11 (SpecWrap): DisplayVerboseInfo shows a message in rows of at most   *)
(* DATA_INFO_TAG_LEN characters whose fragments, concatenated in order,    *)
(* are the message; the first row carries the label, every later row a     *)
(* blank one.                                                              *)
(***************************************************************************)
RECURSIVE ConcatInfo(_)
ConcatInfo(shown) ==
    IF shown = <<>> THEN <<>> ELSE Head(shown).DATA_INFO \o ConcatInfo(Tail(shown))

C11_RowsRebuildTheMessage ==
    ("DisplayVerboseInfo" \in op) =>
        /\ \A k \in 1 .. Len(cmdView) : Len(cmdView[k].DATA_INFO) <= DATA_INFO_TAG_LEN
        /\ ConcatInfo(cmdView) = info
        /\ \A k \in 1 .. Len(cmdView) :
              cmdView[k].DATA_NAME = (IF k = 1 THEN name ELSE "")

\* a labelled message that needs three rows, the last one not full
C11_Witness ==
    /\ "DisplayVerboseInfo" \in op
    /\ name = "Info"
    /\ Len(info) = 2 * DATA_INFO_TAG_LEN + 5
    /\ Len(cmdView) = 3
    /\ Len(cmdView[3].DATA_INFO) = 5
    /\ cmdView[2].DATA_NAME = ""

(***************************************************************************)
(* C12 (Spec): the four handlers are installed once.  Until the first      *)
(* InstallSigHandlers call nothing is registered or saved; from then on    *)
(* every signal has handle_signal_during_diag as its handler and the       *)
(* disposition it had before as its saved one, and no later call (one per  *)
(* RunDiagOnce) changes either.                                            *)
(***************************************************************************)
C12_HandlersInstalledOnce ==
    /\ [](~diag_installed_sig_handlers =>
            \A s \in Signals : sigactions[s] = SIG_DFL /\ diag_oldHandler[s] = NULL)
    /\ [](diag_installed_sig_handlers =>
            \A s \in Signals : /\ sigactions[s] = "handle_signal_during_diag"
                               /\ diag_oldHandler[s] = SIG_DFL)
    /\ [][diag_installed_sig_handlers =>
            UNCHANGED <<diag_installed_sig_handlers, sigactions, diag_oldHandler>>]_vars

\* the second RunDiagOnce of a run of several iterations is past its call
C12_Witness ==
    /\ m_iterations >= 2
    /\ Len(hist.rets) = 1
    /\ pc = "exec_arm"
    /\ diag_installed_sig_handlers
    /\ \A s \in Signals : /\ sigactions[s] = "handle_signal_during_diag"
                          /\ diag_oldHandler[s] = SIG_DFL

(***************************************************************************)
(* C13 (Spec), as claimed: a signal that handle_signal_during_diag         *)
(* receives while no run is armed is passed on to the disposition saved    *)
(* for it, as RUN_OLD_HANDLER would do; a saved SIG_DFL terminates the     *)
(* process.                                                                *)
(***************************************************************************)
\* RUN_OLD_HANDLER, lines 141-149: SIG_DFL is restored and the signal raised
\* again, SIG_IGN does nothing, any other saved handler is called
RUN_OLD_HANDLER(sig) ==
    IF diag_oldHandler[sig] = SIG_DFL THEN pc' = "terminated" ELSE pc' = pc

C13_UnarmedSignalPassedOn ==
    [][(hist'.unarmed # hist.unarmed) => \E sig \in Signals : RUN_OLD_HANDLER(sig)]_vars

(***************************************************************************)
(* C14 (Spec): diag_stopDiagOnSignal is true only inside an                *)
(* ExecuteDiagOnServer call.  It is true from before rde->Start() to the   *)
(* end of the poll loop, whichever branch ends the loop, and false at      *)
(* every position of the main thread outside the call: before the first    *)
(* run, in RunDiagOnce after the call returned (failure paths, rendering,  *)
(* classification), between iterations and after RunStartDiag returned.    *)
(***************************************************************************)
C14_ArmedOnlyDuringExecute ==
    /\ diag_stopDiagOnSignal =>
          pc \in {"exec_start", "poll", "sleep", "abort", "stop", "exec_disarm"}
    /\ (pc \in {"exec_start", "poll", "sleep", "abort", "stop"}) => diag_stopDiagOnSignal
    /\ (rde.state = "running") => diag_stopDiagOnSignal
    /\ (pc = "exec_start") => rde.state = "created"

\* a killed call has returned to RunDiagOnce, and the flag is down
C14_Witness ==
    /\ pc = "once_check"
    /\ result = DCGM_ST_NVVS_KILLED
    /\ hist.aborts = 1
    /\ g_signalExit
    /\ ~diag_stopDiagOnSignal

(***************************************************************************)
(* C15 (Spec): cancellation wins over completion.  A poll that finds       *)
(* g_signalExit set goes to the abort, whether or not the dispatch has     *)
(* exited, and reads nothing of it; from there to the end of the run the   *)
(* dispatch's return code and response are never read, RunDiagOnce's       *)
(* response record is still the initialised one, and the outcome of the    *)
(* call is DCGM_ST_NVVS_KILLED.                                            *)
(***************************************************************************)
C15_CancellationWins ==
    /\ [][(pc = "poll" /\ g_signalExit /\ pc' # pc) =>
            /\ pc' = "abort"
            /\ UNCHANGED <<result, diagResult>>
            /\ hist'.reads = hist.reads]_vars
    /\ []((pc \in {"abort", "stop"} \/ hist.aborts > 0) =>
            /\ hist.reads = 0
            /\ diagResult = InitializeDiagResponse)
    /\ []((hist.aborts > 0 /\ pc # "stop") => result = DCGM_ST_NVVS_KILLED)

\* the dispatch had completed, with a timeout, when the poll found the flag
C15_Witness ==
    /\ pc = "exec_return"
    /\ rde.state = "stopped"
    /\ rde.m_result = DCGM_ST_TIMEOUT
    /\ hist.reads = 0
    /\ result = DCGM_ST_NVVS_KILLED

(***************************************************************************)
(* C16 (Spec): whatever AbortDiag::Execute returns, the cancellation path  *)
(* gives DCGM_ST_NVVS_KILLED: as the outcome of ExecuteDiagOnServer, of    *)
(* RunDiagOnce and of RunStartDiag.                                        *)
(***************************************************************************)
C16_AbortFailureDoesNotEscalate ==
    (hist.abortRet # "none") =>
        /\ (pc \in {"exec_disarm", "exec_return", "once_check", "once_return"})
              => result = DCGM_ST_NVVS_KILLED
        /\ (pc \in {"iter_check", "finish", "returned"})
              => hist.rets[Len(hist.rets)] = DCGM_ST_NVVS_KILLED
        /\ (pc = "returned") => overallRet = DCGM_ST_NVVS_KILLED

\* the abort request failed and RunDiagOnce is about to return Killed
C16_Witness ==
    /\ pc = "once_return"
    /\ hist.abortRet = DCGM_ST_GENERIC_ERROR
    /\ hist.aborts = 1
    /\ result = DCGM_ST_NVVS_KILLED

(***************************************************************************)
(* C17 (Spec): when the remote call returned DCGM_ST_GROUP_INCOMPATIBLE,   *)
(* DCGM_ST_NOT_SUPPORTED or DCGM_ST_PAUSED, RunDiagOnce returns that code  *)
(* having displayed the fixed message of the code and nothing else: no     *)
(* report, no classification, no stop request, and the run was dispatched  *)
(* once.                                                                   *)
(***************************************************************************)
FixedMessage(code) ==
    CASE code = DCGM_ST_GROUP_INCOMPATIBLE -> MSG_GROUP_INCOMPATIBLE
      [] code = DCGM_ST_NOT_SUPPORTED -> MSG_NOT_SUPPORTED
      [] code = DCGM_ST_PAUSED -> MSG_PAUSED

C17_RejectionSurfacesFixedMessage ==
    (pc = "once_return"
        /\ hist.transport \in {DCGM_ST_GROUP_INCOMPATIBLE, DCGM_ST_NOT_SUPPORTED,
                               DCGM_ST_PAUSED}) =>
        /\ result = hist.transport
        /\ hist.log = <<FailureMessage(m_jsonOutput, <<FixedMessage(hist.transport)>>)>>
        /\ ~hist.rendered
        /\ ~hist.classified
        /\ hist.stops = 0
        /\ hist.dispatches = 1

\* DCGM is paused, and the response carries a message of its own
C17_Witness ==
    /\ pc = "once_return"
    /\ hist.transport = DCGM_ST_PAUSED
    /\ diagResult.systemError # ""
    /\ result = DCGM_ST_PAUSED
    /\ Len(hist.log) = 1
    /\ hist.log[1].arg = <<MSG_PAUSED>>

(***************************************************************************)
(* C18 (Spec): when the remote call returned DCGM_ST_TIMEOUT, RunDiagOnce  *)
(* makes one dcgmStopDiagnostic request, then displays one failure         *)
(* message, and returns DCGM_ST_TIMEOUT whatever the stop request          *)
(* returned.                                                               *)
(***************************************************************************)
C18_TimeoutStopsThenReports ==
    (pc = "once_return" /\ hist.transport = DCGM_ST_TIMEOUT) =>
        /\ result = DCGM_ST_TIMEOUT
        /\ hist.stops = 1
        /\ Len(hist.log) = 2
        /\ hist.log[1].ev = "dcgmStopDiagnostic"
        /\ hist.log[2].ev \in {"errMsg", "NVVS_RUNTIME_ERROR"}
        /\ ~hist.rendered

\* the stop request failed
C18_Witness ==
    /\ pc = "once_return"
    /\ hist.transport = DCGM_ST_TIMEOUT
    /\ hist.log[1] = StopRequest(DCGM_ST_GENERIC_ERROR)
    /\ hist.log[2].arg[Len(hist.log[2].arg)] = MSG_COULD_NOT_STOP
    /\ result = DCGM_ST_TIMEOUT

(***************************************************************************)
(* C19 (Spec): the remote call returned DCGM_ST_OK with a system-error     *)
(* message in the response.  In text mode RunDiagOnce returns              *)
(* DCGM_ST_NVVS_ERROR with no report rendered and no classification; in    *)
(* structured mode the report is rendered, no failure message is           *)
(* displayed and the outcome is what GetFailureResult gives.               *)
(***************************************************************************)
C19_SoftFailureOnlyInTextMode ==
    (pc = "once_return" /\ hist.transport = DCGM_ST_OK /\ diagResult.systemError # "") =>
        IF m_jsonOutput = FALSE
        THEN /\ result = DCGM_ST_NVVS_ERROR
             /\ ~hist.rendered
             /\ ~hist.classified
        ELSE /\ hist.rendered
             /\ hist.classified
             /\ hist.log = <<>>
             /\ result = GetFailureResult(diagResult)

\* text mode, and nothing in the response fails
C19_Witness ==
    /\ pc = "once_return"
    /\ hist.transport = DCGM_ST_OK
    /\ diagResult.systemError # ""
    /\ m_jsonOutput = FALSE
    /\ GetFailureResult(diagResult) = DCGM_ST_OK
    /\ result = DCGM_ST_NVVS_ERROR
    /\ ~hist.rendered

(***************************************************************************)
(* C20 (Spec), as claimed: a non-OK return of RunDiagOnce or of            *)
(* RunStartDiag has been preceded by exactly one failure message (text     *)
(* mode) or one error field of the structured output.                      *)
(***************************************************************************)
FailureOutputs(log) ==
    Cardinality({k \in 1 .. Len(log) :
                    log[k].ev \in {"errMsg", "NVVS_RUNTIME_ERROR", "Aborting", "NVVS_WARNING"}})

C20_OneFailureMessagePerFailure ==
    /\ (pc = "once_return" /\ result # DCGM_ST_OK) => FailureOutputs(hist.log) = 1
    /\ (pc = "returned" /\ overallRet # DCGM_ST_OK) => FailureOutputs(hist.log) = 1

(***************************************************************************)
(* C21 (SpecDoc): with an empty GPU filter and a response in which no      *)
(* per-GPU slot is populated, the derived GPU set is empty, and the report *)
(* has no Integration, Hardware or Stress section, in the text format and  *)
(* in the structured one, while Deployment is rendered.                    *)
(***************************************************************************)
NoSlotPopulated(d) ==
    \A g \in Devices : d.perGpuResponses[g].gpuId = DCGM_MAX_NUM_DEVICES

Banners(report) == [k \in 1 .. Len(report) |-> report[k].banner]

HeaderOf(h) == IF h = JsonNull THEN "null" ELSE h.header

Headers(doc) == [k \in 1 .. Len(doc.headers) |-> HeaderOf(doc.headers[k])]

PerGpuSections == {DISPLAY_INTEGRATION, DISPLAY_HARDWARE, DISPLAY_STRESS}

C21_NoGpuNoPerGpuSections ==
    (m_drd.gpuList = <<>> /\ NoSlotPopulated(resp)) =>
        /\ "gpus" \in op => gpuVec = <<>>
        /\ "text" \in op =>
              /\ \A k \in 1 .. Len(textReport) : textReport[k].banner \notin PerGpuSections
              /\ \E k \in 1 .. Len(textReport) : textReport[k].banner = DISPLAY_DEPLOYMENT
        /\ "json" \in op => Headers(jsonDoc) = <<DISPLAY_DEPLOYMENT>>

\* a response without a populated slot, but with a cell that has a status: the
\* text report and the structured document were produced without the sections
C21_Witness ==
    /\ m_drd.gpuList = <<>>
    /\ NoSlotPopulated(resp)
    /\ resp.gpuCount = DCGM_MAX_NUM_DEVICES
    /\ \E g \in Devices, t \in DocTests :
          resp.perGpuResponses[g].results[t].status = DCGM_DIAG_RESULT_PASS
    /\ \/ "text" \in op /\ Banners(textReport) = <<"Metadata", DISPLAY_DEPLOYMENT>>
       \/ "json" \in op /\ Len(jsonDoc.headers) = 1

(***************************************************************************)
(* C22 (SpecDoc): the headers array of the structured document has         *)
(* Deployment at index 0, followed, in the order Integration, Hardware,    *)
(* Stress, by exactly the categories in which a test has a status other    *)
(* than not-run for a GPU of the set; no element of the array is null.     *)
(***************************************************************************)
CategoryRan(d, gpuIndices, c) ==
    \E p \in DocTests, k \in 1 .. Len(gpuIndices) :
        /\ PluginCategory(p) = c
        /\ d.perGpuResponses[gpuIndices[k]].results[p].status # DCGM_DIAG_RESULT_NOT_RUN

CategoriesThatRan(d, gpuIndices) ==
    SelectSeq(<<DISPLAY_INTEGRATION, DISPLAY_HARDWARE, DISPLAY_STRESS>>,
              LAMBDA c : CategoryRan(d, gpuIndices, c))

C23_RequestCarriesIterationStamp ==
    (m_iterations > 1 /\ rde.state # "none") =>
        /\ rde.m_drd.totalIterations = m_iterations
        /\ rde.m_drd.currentIteration = Len(hist.rets)
        /\ rde.m_drd.currentIteration = i

\* the third run of three is dispatched
C23_Witness ==
    /\ m_iterations = 3
    /\ rde.state = "running"
    /\ rde.m_drd.totalIterations = 3
    /\ rde.m_drd.currentIteration = 2

(***************************************************************************)
(* C24 (Spec): with m_iterations 0 or 1, RunStartDiag executes one run and *)
(* returns its outcome; no iteration banner and no summary line is         *)
(* printed, and no iterations document is built.                           *)
(***************************************************************************)
SummaryLines(log) ==
    SelectSeq(log, LAMBDA l : l.ev \in {"Passed all", "Aborting", "NVVS_RESULT",
                                         "NVVS_WARNING"})

C24_SingleRunIsPassedThrough ==
    m_iterations <= 1 =>
        /\ hist.banners = <<>>
        /\ SummaryLines(hist.log) = <<>>
        /\ output = NoOutput
        /\ m_jsonTmpValue = JsonNull
        /\ Len(hist.rets) <= 1
        /\ pc = "returned" => /\ Len(hist.rets) = 1
                              /\ overallRet = hist.rets[1]

\* zero iterations, structured mode: the one run was classified an isolate error
C24_Witness ==
    /\ m_iterations = 0
    /\ m_jsonOutput
    /\ pc = "returned"
    /\ hist.rets = <<DCGM_ST_NVVS_ISOLATE_ERROR>>
    /\ overallRet = DCGM_ST_NVVS_ISOLATE_ERROR
    /\ hist.rendered

(***************************************************************************)
(* C25 (Spec): at most one dispatch is in flight; when a run is about to   *)
(* be dispatched, the runs of all earlier iterations have returned and no  *)
(* dispatch is in flight.                                                  *)
(***************************************************************************)
C25_OneDispatchInFlight ==
    /\ hist.inflight <= 1
    /\ pc = "exec_start" => /\ hist.inflight = 0
                            /\ Len(hist.rets) = i

\* the third run is in flight, alone
C25_Witness ==
    /\ rde.state = "running"
    /\ i = 2
    /\ hist.rets = <<DCGM_ST_OK, DCGM_ST_OK>>
    /\ hist.inflight = 1

(***************************************************************************)
(* C26 (Spec), as claimed: in structured mode with more than one           *)
(* iteration, when the loop has ended the iterations array holds one       *)
(* fragment per executed iteration, and the fragment at index k is the     *)
(* document built from the response of iteration k.                        *)
(***************************************************************************)
C26_OneFragmentPerIteration ==
    (m_jsonOutput /\ m_iterations > 1 /\ pc \in {"finish", "returned"}) =>
        /\ Len(output.iterations) = Len(hist.rets)
        /\ \A k \in 1 .. Len(output.iterations) :
              output.iterations[k] = [iteration |-> k - 1]

(***************************************************************************)
(* C27 (Spec): with more than one iteration, when RunStartDiag has         *)
(* returned: in structured mode the result field of the document is "Pass" *)
(* exactly when the return is OK and "Fail" exactly when it is not; in     *)
(* text mode one summary line was printed, the passed-all line with the    *)
(* iteration count when the return is OK, else the abort notice with the   *)
(* failing code.                                                           *)
(***************************************************************************)
C27_SummaryMatchesReturn ==
    (m_iterations > 1 /\ pc = "returned") =>
        IF m_jsonOutput
        THEN /\ (output.result = JsonString("Pass")) <=> (overallRet = DCGM_ST_OK)
             /\ (output.result = JsonString("Fail")) <=> (overallRet # DCGM_ST_OK)
        ELSE SummaryLines(hist.log) =
                <<IF overallRet = DCGM_ST_OK
                  THEN [ev |-> "Passed all", arg |-> <<m_iterations>>]
                  ELSE [ev |-> "Aborting", arg |-> <<overallRet>>]>>

\* structured mode, the second of three iterations timed out
C27_Witness ==
    /\ m_iterations = 3
    /\ m_jsonOutput
    /\ pc = "returned"
    /\ hist.rets = <<DCGM_ST_OK, DCGM_ST_TIMEOUT>>
    /\ output.result = JsonString("Fail")
    /\ output.warning = JsonString(DCGM_ST_TIMEOUT)

(***************************************************************************)
(* C29 (Spec): g_signalExit is false at process start and, once true,      *)
(* stays true; an ExecuteDiagOnServer call that begins with the flag set   *)
(* never sleeps and never reads the dispatch's result: it leaves the loop  *)
(* at its first poll with DCGM_ST_NVVS_KILLED.                             *)
(***************************************************************************)
InCall == pc \in {"exec_start", "poll", "sleep", "abort", "stop", "exec_disarm",
                  "exec_return"}

C29_FlagIsSetOnce ==
    /\ ~g_signalExit
    /\ [][g_signalExit => g_signalExit']_vars
    /\ []((hist.flagAtArm /\ InCall) =>
            /\ g_signalExit
            /\ pc # "sleep"
            /\ hist.reads = 0
            /\ pc \in {"exec_disarm", "exec_return"} => result = DCGM_ST_NVVS_KILLED)

\* the flag was set late in the first run, which returned OK; the second run
\* was killed at once
C29_Witness ==
    /\ hist.flagAtArm
    /\ pc = "exec_return"
    /\ result = DCGM_ST_NVVS_KILLED
    /\ hist.rets = <<DCGM_ST_OK>>
    /\ hist.signals = 1

(***************************************************************************)
(* C28 (SpecStart), as claimed: diag_hostname and diag_pathToExecutable    *)
(* are non-empty only inside DoExecuteConnected or                         *)
(* DoExecuteConnectionFailure, between the assignment that precedes        *)
(* RunStartDiag and the reset that follows it; both are empty before the   *)
(* handler is entered and after it has returned.                           *)
(***************************************************************************)
InHandler ==
    startDiag.at \in {"connected_run", "connected_reset", "embedded_start",
                      "embedded_run", "failure_reset"}

C28_GlobalsSetOnlyDuringRun ==
    /\ diag_hostname # "" => InHandler
    /\ diag_pathToExecutable # "" => InHandler
    /\ startDiag.at \in {"connected_run", "embedded_run"} =>
          /\ diag_hostname = startDiag.m_hostName
          /\ diag_pathToExecutable = startDiag.pathToDcgmExecutable

(***************************************************************************)
(* C30 (SpecDetails), as claimed: for one test over a GPU set, the detail  *)
(* rows (error messages and notes) are shown when every GPU skipped or     *)
(* every GPU failed; when every GPU passed they are shown only with the    *)
(* verbose flag; when the statuses are mixed they are the rows of the GPUs *)
(* that did not pass, and of no other GPU.                                 *)
(***************************************************************************)
StatusOf(k) == resp.perGpuResponses[gpuVec[k]].results[0].status

AllHave(st) == \A k \in 1 .. Len(gpuVec) : StatusOf(k) = st

\* the GPUs of the set did not all end alike
Mixed == \E k, l \in 1 .. Len(gpuVec) : StatusOf(k) # StatusOf(l)

\* the detail rows of the GPUs of the list, warnings first
RowsOf(list) == HelperDisplayDetails(TRUE, list, 0, m_drd, resp.perGpuResponses)

NotPassed(g) ==
    resp.perGpuResponses[g].results[0].status # DCGM_DIAG_RESULT_PASS

C30_DetailRowsFollowTheStatuses ==
    op # {} =>
        LET verbose == DCGM_RUN_FLAGS_VERBOSE \in m_drd.flags
        IN  CASE AllHave(DCGM_DIAG_RESULT_PASS) ->
                   cmdView = IF verbose THEN RowsOf(gpuVec) ELSE <<>>
              [] AllHave(DCGM_DIAG_RESULT_SKIP) \/ AllHave(DCGM_DIAG_RESULT_FAIL) ->
                   cmdView = RowsOf(gpuVec)
              [] AllHave(DCGM_DIAG_RESULT_WARN) -> TRUE
              [] Mixed /\ ~verbose ->
                   cmdView = RowsOf(SelectSeq(gpuVec, NotPassed))
              [] OTHER -> TRUE

(***************************************************************************)
(* C31 (Spec): on the cancellation path the abort request comes first,     *)
(* then the dispatch is force-stopped, then the armed flag is cleared,     *)
(* then Killed is returned; the abort request is made by the poll loop and *)
(* never by the delivery of a signal.                                      *)
(***************************************************************************)
C31_CancellationOrder ==
    [][/\ hist'.aborts > hist.aborts =>
            /\ pc = "abort"
            /\ diag_stopDiagOnSignal
            /\ rde.state # "stopped"
            /\ g_signalExit' = g_signalExit
       /\ (rde'.state = "stopped" /\ rde.state # "stopped") =>
            /\ hist.aborts = 1
            /\ diag_stopDiagOnSignal /\ diag_stopDiagOnSignal'
            /\ result' = DCGM_ST_NVVS_KILLED
       /\ (diag_stopDiagOnSignal /\ ~diag_stopDiagOnSignal'
             /\ result = DCGM_ST_NVVS_KILLED) =>
            /\ rde.state = "stopped"
            /\ hist.aborts = 1
            /\ pc' = "exec_return"
       /\ (pc = "exec_return" /\ pc' # "exec_return"
             /\ result = DCGM_ST_NVVS_KILLED) =>
            /\ ~diag_stopDiagOnSignal
            /\ rde.state = "stopped"
            /\ hist'.transport = DCGM_ST_NVVS_KILLED]_vars

\* a cancelled call has returned: one abort request, the dispatch stopped and
\* gone, the flag cleared
C31_Witness ==
    /\ pc = "once_check"
    /\ hist.transport = DCGM_ST_NVVS_KILLED
    /\ hist.aborts = 1
    /\ hist.sigArmed
    /\ ~diag_stopDiagOnSignal
    /\ rde = NoRde

(***************************************************************************)
(* C32 (SpecLive): once the dispatch has completed, or a signal has been   *)
(* delivered while armed, ExecuteDiagOnServer returns; and the poll loop   *)
(* is left on these two events only.                                       *)
(***************************************************************************)
InPollLoop == pc \in {"poll", "sleep"}

C32_ReturnsOnCompletionOrSignal ==
    /\ (InPollLoop /\ (rde.state = "exited" \/ g_signalExit)) ~> (pc = "once_check")
    /\ [][(InPollLoop /\ ~InPollLoop') =>
             (g_signalExit \/ rde.state = "exited")]_pc

\* the loop has slept at least once and the call has returned a completed run
C32_Witness ==
    /\ pc = "once_check"
    /\ hist.transport = DCGM_ST_TIMEOUT
    /\ hist.reads = 1
    /\ hist.signals = 0

(***************************************************************************)
(* C33 (SpecCategory), as claimed: the text report and the structured      *)
(* document put every per-GPU test under the same category: Integration    *)
(* has the PCIe test; Hardware has memory (or context create), diagnostic  *)
(* and pulse; Stress has SM stress, targeted stress, targeted power,       *)
(* memory bandwidth, memtest and EUD.                                      *)
(***************************************************************************)
ClaimedCategory(testName) ==
    CASE testName \in {"PCIe"} -> DISPLAY_INTEGRATION
      [] testName \in {"GPU Memory", "Context Create", "Diagnostic", "Pulse Test"} ->
           DISPLAY_HARDWARE
      [] testName \in {"SM Stress", "Targeted Stress", "Targeted Power",
                       "Memory Bandwidth", "Memtest", "EUD Test"} -> DISPLAY_STRESS
      [] OTHER -> "none"

\* the name of the test a row of the text report is about
NameOfRow(label) ==
    IF label = "DCGM_CONTEXT_CREATE_INDEX" THEN "Context Create"
    ELSE LET idx == CHOOSE x \in AllPlugins : PluginLabel(x) = label
         IN  HelperGetPluginName([testNames |-> <<"">>], idx)

C33_SameCategoryInTextAndJson ==
    /\ "text" \in op =>
          \A k \in 1 .. Len(textReport) :
             textReport[k].banner \in PerGpuSections =>
                \A n \in 1 .. Len(textReport[k].tests) :
                   ClaimedCategory(NameOfRow(textReport[k].tests[n])) = textReport[k].banner
    /\ "json" \in op =>
          \A k \in 1 .. Len(jsonDoc.headers) :
             jsonDoc.headers[k].header \in PerGpuSections =>
                \A n \in 1 .. Len(jsonDoc.headers[k].tests) :
                   ClaimedCategory(jsonDoc.headers[k].tests[n].test_name)
                      = jsonDoc.headers[k].header

(***************************************************************************)
(* C34 (SpecRender), as claimed: in the structured document the results    *)
(* array of a test has exactly one entry for each GPU of the set whose     *)
(* status for the test is not NOT_RUN, and no element, null or other, for  *)
(* a GPU that did not run the test.                                        *)
(***************************************************************************)
RanTest(d, list, t) ==
    {k \in 1 .. Len(list) : StatusAt(d, list, k, t) # DCGM_DIAG_RESULT_NOT_RUN}

C34_OneResultPerGpuThatRan ==
    "json" \in op =>
        \A t \in Tests :
            LET results == jsonDoc[t].results
            IN  /\ \A n \in 1 .. Len(results) : results[n] # JsonNull
                /\ Len(results) = Cardinality(RanTest(resp, gpuVec, t))
                /\ \A k \in RanTest(resp, gpuVec, t) :
                      Cardinality({n \in 1 .. Len(results) :
                                      results[n] # JsonNull
                                      /\ results[n].gpu_id = gpuVec[k]}) = 1

(***************************************************************************)
(* C35 (SpecDeployment): the tests array of the Deployment category has no *)
(* gap: it names every level-one test below levelOneTestCount once, in the *)
(* order of the enumeration, from index 0 on, but for the CUDA runtime     *)
(* library check, which is left out when its status is NOT_RUN.            *)
(***************************************************************************)
DeploymentOf(doc) == doc.headers[1]

TestNames(tests) ==
    [n \in 1 .. Len(tests) |-> IF tests[n] = JsonNull THEN "null" ELSE tests[n].test_name]

\* the level-one tests the document is to name, in order
ReportedLevelOne(d) ==
    SelectSeq([k \in 1 .. d.levelOneTestCount |-> k - 1],
              LAMBDA l : ~(/\ levelOneTests[l + 1] = "CUDA Toolkit Library"
                           /\ d.levelOneResults[l].status = DCGM_DIAG_RESULT_NOT_RUN))

C35_DeploymentTestsHaveNoGap ==
    "json" \in op =>
        LET tests == DeploymentOf(jsonDoc).tests
            want  == ReportedLevelOne(resp)
        IN  /\ DeploymentOf(jsonDoc).header = DISPLAY_DEPLOYMENT
            /\ Len(tests) = Len(want)
            /\ \A n \in 1 .. Len(tests) :
                  /\ tests[n] # JsonNull
                  /\ tests[n].test_name = levelOneTests[want[n] + 1]
                  /\ tests[n].results =
                        <<[status |-> HelperDisplayDiagResult(
                                          resp.levelOneResults[want[n]].status)]>>

\* the CUDA runtime library check was not run and a test after it is named
C35_Witness ==
    /\ "json" \in op
    /\ resp.levelOneTestCount >= 5
    /\ resp.levelOneResults[3].status = DCGM_DIAG_RESULT_NOT_RUN
    /\ resp.levelOneResults[4].status = DCGM_DIAG_RESULT_FAIL
    /\ Len(DeploymentOf(jsonDoc).tests) = resp.levelOneTestCount - 1
    /\ DeploymentOf(jsonDoc).tests[4].test_name = "Permissions and OS Blocks"

(***************************************************************************)
(* C36 (SpecFilter), as claimed: whatever filter the command line check    *)
(* accepts and whatever the response, every index the renderers read a     *)
(* per-GPU slot with is below DCGM_MAX_NUM_DEVICES.                        *)
(***************************************************************************)
C36_SlotIndicesInRange ==
    op \cap {"text", "json", "fault"} # {} =>
        \A k \in 1 .. Len(gpuVec) : gpuVec[k] < DCGM_MAX_NUM_DEVICES

(***************************************************************************)
(* C37 (Spec), as claimed: when the report of a run, text or structured,   *)
(* shows the status "Fail" for a level-one test or for a test of a GPU,    *)
(* RunDiagOnce returns an outcome other than OK.                           *)
(***************************************************************************)
C37_ReportedFailMeansNotOk ==
    (pc = "once_return" /\ hist.rendered /\ hist.showsFail) => result # DCGM_ST_OK

(***************************************************************************)
(* C38 (Spec): a run sends the engine an abort request only when it is     *)
(* killed, and then one, and a stop request only when it ends with         *)
(* DCGM_ST_TIMEOUT, and then one; a run that ends with OK or with any      *)
(* other return code sends neither.                                        *)
(***************************************************************************)
C38_RequestsOnlyWhenKilledOrTimedOut ==
    pc = "once_return" =>
        /\ hist.aborts = IF hist.transport = DCGM_ST_NVVS_KILLED THEN 1 ELSE 0
        /\ hist.stops = IF hist.transport = DCGM_ST_TIMEOUT THEN 1 ELSE 0
        /\ Cardinality({k \in 1 .. Len(hist.log) : hist.log[k].ev = "dcgmStopDiagnostic"})
              = hist.stops

\* a run that timed out, with a signal delivered after the poll that saw the
\* dispatch complete: one stop request and no abort request
C38_Witness ==
    /\ pc = "once_return"
    /\ hist.transport = DCGM_ST_TIMEOUT
    /\ hist.sigArmed
    /\ hist.aborts = 0
    /\ hist.stops = 1

(***************************************************************************)
(* C39 (Spec): when a run is killed the caller's response is left as       *)
(* InitializeDiagResponse made it, no GPU set is derived, no report is     *)
(* rendered, no classification is run, and RunDiagOnce returns             *)
(* DCGM_ST_NVVS_KILLED.                                                    *)
(***************************************************************************)
C39_KilledRunLeavesResponseUntouched ==
    (pc = "once_return" /\ hist.transport = DCGM_ST_NVVS_KILLED) =>
        /\ diagResult = InitializeDiagResponse
        /\ \A g \in Devices : diagResult.perGpuResponses[g].gpuId = DCGM_MAX_NUM_DEVICES
        /\ gpuVec = <<>>
        /\ ~hist.rendered
        /\ ~hist.classified
        /\ hist.reads = 0
        /\ result = DCGM_ST_NVVS_KILLED

\* a killed run has displayed its failure message and is about to return
C39_Witness ==
    /\ pc = "once_return"
    /\ hist.transport = DCGM_ST_NVVS_KILLED
    /\ result = DCGM_ST_NVVS_KILLED
    /\ diagResult = InitializeDiagResponse
    /\ Len(hist.log) = 1
    /\ g_signalExit

====
